---------------------------- MODULE Spec2Model ----------------------------
(***************************************************************************)
(* A model of dproj-rs: the document handle (raw source + typed project), *)
(* the source splicer (set_property_value, set_configuration,             *)
(* set_platform), PropertyGroup merging, the property-group resolver and  *)
(* the condition grammar and evaluator.                                    *)
(*                                                                         *)
(* Strings are sequences of one-character strings.  The raw source is a   *)
(* sequence of lexemes of the XML layer (a start tag, an end tag, an      *)
(* empty-element tag, a comment, or one unit of character data); a byte   *)
(* range of roxmltree is a half-open range [start, end) of lexeme         *)
(* positions, and String::replace_range is a splice of that range.        *)
(***************************************************************************)
EXTENDS Integers, Sequences, FiniteSets, TLC

VARIABLES
    source,     \* Dproj.source: the raw XML text
    project,    \* Dproj.project: the typed model (DprojProject)
    call,       \* the last operation on the handle, its arguments and result
    pre,        \* source and project as they were when that operation began
    ncalls,     \* number of mutations applied so far
    env,        \* Dproj.env: the external environment variables
    run,        \* the locals of an active_property_group_for call in progress
    merge,      \* an accumulator under PropertyGroup::merge_from
    parked,     \* the locals of a second call on the same &self, not running now
    cond,       \* a condition text under parse_condition and evaluate
    rsvars      \* the contents of an rsvars.bat under parse_rsvars

vars == <<source, project, call, pre, ncalls, env, run, merge, parked, cond, rsvars>>

(***************************************************************************)
(* Bounds                                                                  *)
(***************************************************************************)
MaxCalls == 2

(***************************************************************************)
(* Strings                                                                 *)
(***************************************************************************)
S_Project == <<"P","r","o","j","e","c","t">>
S_PropertyGroup == <<"P","r","o","p","e","r","t","y","G","r","o","u","p">>
S_ItemGroup == <<"I","t","e","m","G","r","o","u","p">>
S_BuildConfiguration == <<"B","u","i","l","d","C","o","n","f","i","g","u","r","a","t","i","o","n">>
S_Include == <<"I","n","c","l","u","d","e">>
S_Key == <<"K","e","y">>
S_CfgParent == <<"C","f","g","P","a","r","e","n","t">>
S_Condition == <<"C","o","n","d","i","t","i","o","n">>
S_ProjectVersion == <<"P","r","o","j","e","c","t","V","e","r","s","i","o","n">>
S_Config == <<"C","o","n","f","i","g">>
S_Configuration == <<"C","o","n","f","i","g","u","r","a","t","i","o","n">>
S_Platform == <<"P","l","a","t","f","o","r","m">>
S_ProjectName == <<"P","r","o","j","e","c","t","N","a","m","e">>
S_MainSource == <<"M","a","i","n","S","o","u","r","c","e">>
S_MSBuildProjectName == <<"M","S","B","u","i","l","d","P","r","o","j","e","c","t","N","a","m","e">>
S_Base == <<"B","a","s","e">>
S_true == <<"t","r","u","e">>
S_DCC_Define == <<"D","C","C","_","D","e","f","i","n","e">>
S_DCC_ExeOutput == <<"D","C","C","_","E","x","e","O","u","t","p","u","t">>
S_DCC_Prefix == <<"D","C","C","_">>
S_DCC_W == <<"D","C","C","_","W">>
S_MyTag == <<"M","y","T","a","g">>
S_AmpEntity == <<"&","a","m","p",";">>

StartsWith(s, p) == Len(s) >= Len(p) /\ SubSeq(s, 1, Len(p)) = p

Drop(s, n) == SubSeq(s, n + 1, Len(s))

\* Option<T>: None is the empty sequence, Some(v) the one-element sequence.
None == <<>>
Some(v) == <<v>>
IsSome(o) == o # <<>>
Unwrap(o) == o[1]

\* HashMap<String, String>
EmptyMap == [k \in {} |-> <<>>]
Insert(m, k, v) == [x \in (DOMAIN m) \cup {k} |-> IF x = k THEN v ELSE m[x]]

(***************************************************************************)
(* $(Var) expansion of property values (dproj.rs)                          *)
(***************************************************************************)
\* chars.by_ref().take_while(|&ch| ch != ')'): the characters before the
\* first ")" and what is left after it (the ")" itself is consumed); with no
\* ")" everything is taken and nothing is left.
RECURSIVE TakeName(_)
TakeName(s) ==
    IF s = <<>> THEN [name |-> <<>>, rest |-> <<>>]
    ELSE IF s[1] = ")" THEN [name |-> <<>>, rest |-> Tail(s)]
    ELSE LET r == TakeName(Tail(s)) IN [r EXCEPT !.name = <<s[1]>> \o @]

\* c == '$' && chars.peek() == Some(&'(')
AtVarRef(s) == Len(s) >= 2 /\ s[1] = "$" /\ s[2] = "("

\* str::contains("$(")
ContainsVarRef(s) == \E i \in 1..(Len(s) - 1) : s[i] = "$" /\ s[i + 1] = "("

\* Mutant: a name the map does not hold leaves its reference in the text.
Lookup_KeepReference(vs, name) ==
    IF name \in DOMAIN vs THEN vs[name] ELSE <<"$", "(">> \o name \o <<")">>

\* vars.get(name), the empty string when absent
Lookup(vs, name) == IF name \in DOMAIN vs THEN vs[name] ELSE <<>>

RECURSIVE expand_msbuild_vars(_, _)

\* Mutant: a reference that is not closed is kept as it is written.
expand_msbuild_vars_KeepUnclosed(s, vs) ==
    IF s = <<>> THEN <<>>
    ELSE IF AtVarRef(s)
    THEN IF \E i \in 3..Len(s) : s[i] = ")"
         THEN LET t == TakeName(Drop(s, 2))
              IN  Lookup(vs, t.name) \o expand_msbuild_vars(t.rest, vs)
         ELSE s
    ELSE <<s[1]>> \o expand_msbuild_vars(Tail(s), vs)

expand_msbuild_vars(s, vs) ==
    IF s = <<>> THEN <<>>
    ELSE IF AtVarRef(s)
    THEN LET t == TakeName(Drop(s, 2))
         IN  Lookup(vs, t.name) \o expand_msbuild_vars(t.rest, vs)
    ELSE <<s[1]>> \o expand_msbuild_vars(Tail(s), vs)

(***************************************************************************)
(* Conditions (condition.rs)                                               *)
(***************************************************************************)
Literal(s) == [t |-> "Literal", s |-> s]
Variable(s) == [t |-> "Variable", s |-> s]
Compare(lhs, op, rhs) == [t |-> "Compare", lhs |-> lhs, op |-> op, rhs |-> rhs]
Exists(parts) == [t |-> "Exists", parts |-> parts]
And(a, b) == [t |-> "And", a |-> a, b |-> b]
Or(a, b) == [t |-> "Or", a |-> a, b |-> b]

\* parse_string_parts, with the literal collected so far.
RECURSIVE StringParts(_, _)

\* Mutant: the literal collected so far is not pushed before a variable.
StringParts_NoFlush(s, literal) ==
    IF s = <<>>
    THEN IF literal # <<>> THEN <<Literal(literal)>> ELSE <<>>
    ELSE IF AtVarRef(s)
    THEN LET t == TakeName(Drop(s, 2))
         IN  <<Variable(t.name)>> \o StringParts(t.rest, literal)
    ELSE StringParts(Tail(s), literal \o <<s[1]>>)

StringParts(s, literal) ==
    IF s = <<>>
    THEN IF literal # <<>> THEN <<Literal(literal)>> ELSE <<>>
    ELSE IF AtVarRef(s)
    THEN LET t == TakeName(Drop(s, 2))
         IN  (IF literal # <<>> THEN <<Literal(literal)>> ELSE <<>>)
               \o <<Variable(t.name)>> \o StringParts(t.rest, <<>>)
    ELSE StringParts(Tail(s), literal \o <<s[1]>>)

parse_string_parts(s) == StringParts(s, <<>>)

RECURSIVE expand_string(_, _)

\* Mutant: the fragments are joined last to first.
expand_string_Reversed(parts, vs) ==
    IF parts = <<>> THEN <<>>
    ELSE expand_string(Tail(parts), vs)
         \o (IF Head(parts).t = "Literal" THEN Head(parts).s
             ELSE Lookup(vs, Head(parts).s))

expand_string(parts, vs) ==
    IF parts = <<>> THEN <<>>
    ELSE (IF Head(parts).t = "Literal" THEN Head(parts).s
          ELSE Lookup(vs, Head(parts).s))
         \o expand_string(Tail(parts), vs)

RECURSIVE evaluate(_, _)

\* Mutant: Exists looks at the path its operand expands to.
evaluate_ExistsProbes(expr, vs) ==
    CASE expr.t = "Compare" ->
           LET l == expand_string(expr.lhs, vs)
               r == expand_string(expr.rhs, vs)
           IN  IF expr.op = "Equal" THEN l = r ELSE l # r
      [] expr.t = "Exists" -> expand_string(expr.parts, vs) # <<>>
      [] expr.t = "And" -> evaluate(expr.a, vs) /\ evaluate(expr.b, vs)
      [] expr.t = "Or" -> evaluate(expr.a, vs) \/ evaluate(expr.b, vs)

evaluate(expr, vs) ==
    CASE expr.t = "Compare" ->
           LET l == expand_string(expr.lhs, vs)
               r == expand_string(expr.rhs, vs)
           IN  IF expr.op = "Equal" THEN l = r ELSE l # r
      [] expr.t = "Exists" -> TRUE
      [] expr.t = "And" -> evaluate(expr.a, vs) /\ evaluate(expr.b, vs)
      [] expr.t = "Or" -> evaluate(expr.a, vs) \/ evaluate(expr.b, vs)

\* char::is_whitespace and char::is_ascii_alphabetic
Whitespace == {" ", "\t", "\n", "\r"}
UpperCase == <<"A","B","C","D","E","F","G","H","I","J","K","L","M",
               "N","O","P","Q","R","S","T","U","V","W","X","Y","Z">>
LowerCase == <<"a","b","c","d","e","f","g","h","i","j","k","l","m",
               "n","o","p","q","r","s","t","u","v","w","x","y","z">>
IsAsciiAlphabetic(c) == \E i \in 1..26 : c = UpperCase[i] \/ c = LowerCase[i]
ToAsciiLower(c) ==
    IF \E i \in 1..26 : c = UpperCase[i]
    THEN LowerCase[CHOOSE i \in 1..26 : c = UpperCase[i]] ELSE c
eq_ignore_ascii_case(a, b) ==
    Len(a) = Len(b) /\ \A i \in 1..Len(a) : ToAsciiLower(a[i]) = ToAsciiLower(b[i])

\* A parser takes the input and a position and answers [ok, v, pos]: whether
\* it matched, its output, and the position after what it consumed.
NoMatch == [ok |-> FALSE, v |-> <<>>, pos |-> 0]
Match(v, pos) == [ok |-> TRUE, v |-> v, pos |-> pos]

\* .padded(): whitespace skipped from position i on
RECURSIVE SkipWs(_, _)
SkipWs(s, i) == IF i <= Len(s) /\ s[i] \in Whitespace THEN SkipWs(s, i + 1) ELSE i

\* just(text)
Just(s, i, text) ==
    IF i + Len(text) - 1 <= Len(s) /\ SubSeq(s, i, i + Len(text) - 1) = text
    THEN Match(text, i + Len(text)) ELSE NoMatch

\* none_of('\'').repeated(): the end of the run of non-quote characters
RECURSIVE QuoteEnd(_, _)
QuoteEnd(s, i) == IF i <= Len(s) /\ s[i] # "'" THEN QuoteEnd(s, i + 1) ELSE i

\* quoted: a single-quoted string, split into its parts
Quoted(s, i) ==
    IF i <= Len(s) /\ s[i] = "'"
    THEN LET e == QuoteEnd(s, i + 1)
         IN  IF e <= Len(s)
             THEN Match(parse_string_parts(SubSeq(s, i + 1, e - 1)), e + 1)
             ELSE NoMatch
    ELSE NoMatch

\* cmp_op
CmpOp(s, i) ==
    IF Just(s, i, <<"=", "=">>).ok THEN Match("Equal", i + 2)
    ELSE IF Just(s, i, <<"!", "=">>).ok THEN Match("NotEqual", i + 2)
    ELSE NoMatch

\* comparison: quoted.padded() then cmp_op.padded() then quoted.padded()
Comparison(s, i) ==
    LET l == Quoted(s, SkipWs(s, i))
    IN  IF ~l.ok THEN NoMatch
        ELSE LET o == CmpOp(s, SkipWs(s, l.pos))
             IN  IF ~o.ok THEN NoMatch
                 ELSE LET r == Quoted(s, SkipWs(s, SkipWs(s, o.pos)))
                      IN  IF ~r.ok THEN NoMatch
                          ELSE Match(Compare(l.v, o.v, r.v), SkipWs(s, r.pos))

\* alpha_word: a run of at least one ASCII letter
RECURSIVE AlphaEnd(_, _)
AlphaEnd(s, i) ==
    IF i <= Len(s) /\ IsAsciiAlphabetic(s[i]) THEN AlphaEnd(s, i + 1) ELSE i

\* Mutant: the word is matched letter for letter.
Keyword_CaseSensitive(s, i, word) ==
    LET e == AlphaEnd(s, i)
    IN  IF e > i /\ SubSeq(s, i, e - 1) = word THEN Match(word, e) ELSE NoMatch

\* alpha_word.filter(|s| s.eq_ignore_ascii_case(word))
Keyword(s, i, word) ==
    LET e == AlphaEnd(s, i)
    IN  IF e > i /\ eq_ignore_ascii_case(SubSeq(s, i, e - 1), word)
        THEN Match(word, e) ELSE NoMatch

\* exists: Exists ( 'quoted' )
ExistsCall(s, i) ==
    LET k == Keyword(s, i, <<"e", "x", "i", "s", "t", "s">>)
    IN  IF ~k.ok THEN NoMatch
        ELSE LET p == Just(s, SkipWs(s, k.pos), <<"(">>)
             IN  IF ~p.ok THEN NoMatch
                 ELSE LET q == Quoted(s, SkipWs(s, p.pos))
                      IN  IF ~q.ok THEN NoMatch
                          ELSE LET c == Just(s, SkipWs(s, q.pos), <<")">>)
                               IN  IF ~c.ok THEN NoMatch
                                   ELSE Match(Exists(q.v), SkipWs(s, c.pos))

RECURSIVE OrExpr(_, _)
RECURSIVE AndExpr(_, _)
RECURSIVE Atom(_, _)
RECURSIVE AndTail(_, _, _)
RECURSIVE OrTail(_, _, _)

\* .padded(), on the trailing side of a match m
Padded(s, m) == IF m.ok THEN Match(m.v, SkipWs(s, m.pos)) ELSE NoMatch

\* choice((a, b)): b is tried where a did not match
Choice(a, b) == IF a.ok THEN a ELSE b

\* .delimited_by(.., just(')').padded()), after the inner expression e
ParenClose(s, e) ==
    IF ~e.ok THEN NoMatch
    ELSE LET c == Just(s, SkipWs(s, e.pos), <<")">>)
         IN  IF ~c.ok THEN NoMatch ELSE Match(e.v, SkipWs(s, c.pos))

\* paren_expr: expr.delimited_by(just('(').padded(), just(')').padded())
ParenExpr(s, i) ==
    LET p == Just(s, SkipWs(s, i), <<"(">>)
    IN  IF ~p.ok THEN NoMatch
        ELSE ParenClose(s, OrExpr(s, SkipWs(s, p.pos)))

\* atom: choice((comparison, exists, paren_expr)).padded()
Atom(s, i) ==
    Padded(s, Choice(Comparison(s, SkipWs(s, i)),
                     Choice(ExistsCall(s, SkipWs(s, i)),
                            ParenExpr(s, SkipWs(s, i)))))

\* One iteration of kw.ignore_then(operand).repeated(): the operand after
\* the padded keyword, or no match (and then the iteration consumes nothing).
AndOperand(s, i) ==
    LET k == Keyword(s, SkipWs(s, i), <<"a", "n", "d">>)
    IN  IF ~k.ok THEN NoMatch ELSE Atom(s, SkipWs(s, k.pos))

\* Mutant: the fold puts the new operand on the left.
AndFold_Swapped(s, i, lhs, a) ==
    IF ~a.ok THEN Match(lhs, i) ELSE AndTail(s, a.pos, And(a.v, lhs))

\* The fold to the left of one more operand a onto lhs, when there is one.
AndFold(s, i, lhs, a) ==
    IF ~a.ok THEN Match(lhs, i) ELSE AndTail(s, a.pos, And(lhs, a.v))

\* and_kw.ignore_then(atom).repeated(), folded to the left onto lhs
AndTail(s, i, lhs) == AndFold(s, i, lhs, AndOperand(s, i))

AndFirst(s, a) == IF ~a.ok THEN NoMatch ELSE AndTail(s, a.pos, a.v)

\* and_expr: atom.foldl(and_kw.ignore_then(atom).repeated(), And)
AndExpr(s, i) == AndFirst(s, Atom(s, i))

\* Mutant: what follows "or" is one atom.
OrOperand_Atom(s, i) ==
    LET k == Keyword(s, SkipWs(s, i), <<"o", "r">>)
    IN  IF ~k.ok THEN NoMatch ELSE Atom(s, SkipWs(s, k.pos))

OrOperand(s, i) ==
    LET k == Keyword(s, SkipWs(s, i), <<"o", "r">>)
    IN  IF ~k.ok THEN NoMatch ELSE AndExpr(s, SkipWs(s, k.pos))

OrFold(s, i, lhs, a) ==
    IF ~a.ok THEN Match(lhs, i) ELSE OrTail(s, a.pos, Or(lhs, a.v))

\* or_kw.ignore_then(and_expr).repeated(), folded to the left onto lhs
OrTail(s, i, lhs) == OrFold(s, i, lhs, OrOperand(s, i))

OrFirst(s, a) == IF ~a.ok THEN NoMatch ELSE OrTail(s, a.pos, a.v)

\* expr: and_expr.foldl(or_kw.ignore_then(and_expr).repeated(), Or)
OrExpr(s, i) == OrFirst(s, AndExpr(s, i))

\* Mutant: an expression at the start of the input is enough.
parse_condition_Prefix(input) ==
    LET r == OrExpr(input, 1)
    IN  IF r.ok
        THEN [ok |-> TRUE, expr |-> r.v, input |-> input]
        ELSE [ok |-> FALSE, expr |-> <<>>, input |-> input]

\* parse_condition: the expression of the whole input, or the error that
\* carries the input.
parse_condition(input) ==
    LET r == OrExpr(input, 1)
    IN  IF r.ok /\ r.pos = Len(input) + 1
        THEN [ok |-> TRUE, expr |-> r.v, input |-> input]
        ELSE [ok |-> FALSE, expr |-> <<>>, input |-> input]

(***************************************************************************)
(* The XML layer (roxmltree), over lexemes.                                *)
(*   open    <n a1="v1" ...>         close   </n>                          *)
(*   empty   <n a1="v1" .../>        comment <!-- -->                      *)
(*   text    one unit of character data: a character or the reference      *)
(*           "&amp;" (n is the one-element sequence holding the unit)      *)
(* An attribute is [name, raw] with raw the units between the quotes.      *)
(***************************************************************************)
Open(n, a) == [k |-> "open", n |-> n, a |-> a]
Empty(n, a) == [k |-> "empty", n |-> n, a |-> a]
Close(n) == [k |-> "close", n |-> n, a |-> <<>>]
Comment == [k |-> "comment", n |-> <<>>, a |-> <<>>]
TextUnit(u) == [k |-> "text", n |-> <<u>>, a |-> <<>>]
Attr(name, raw) == [name |-> name, raw |-> raw]

\* How the tokenizer reads raw characters as units of character data: the
\* five characters "&amp;" are one reference, any other character is itself.
RECURSIVE Units(_)
Units(s) ==
    IF s = <<>> THEN <<>>
    ELSE IF StartsWith(s, S_AmpEntity) THEN <<"&amp;">> \o Units(Drop(s, 5))
    ELSE <<s[1]>> \o Units(Tail(s))

\* Character data may not hold a bare "&" (an unfinished reference) nor a
\* "<" that starts no markup; an attribute value also not its own quote.
TextUnitOk(u) == u \notin {"&", "<"}
AttrUnitOk(u) == u \notin {"&", "<", "\""}

\* The character a unit stands for.
DecodeUnit(u) == IF u = "&amp;" THEN "&" ELSE u
Decode(us) == [i \in 1..Len(us) |-> DecodeUnit(us[i])]

\* Characters spliced into character data, as lexemes.
TextLexemes(s) == LET us == Units(s) IN [i \in 1..Len(us) |-> TextUnit(us[i])]

AttrsOk(a) ==
    /\ \A i \in 1..Len(a) : \A j \in 1..Len(a[i].raw) : AttrUnitOk(a[i].raw[j])
    /\ \A i, j \in 1..Len(a) : a[i].name = a[j].name => i = j

\* End (exclusive) of the maximal run of text lexemes starting at i.
RECURSIVE TextEnd(_, _)
TextEnd(src, i) ==
    IF i <= Len(src) /\ src[i].k = "text" THEN TextEnd(src, i + 1) ELSE i

\* Node::attributes(): name and value (references resolved), in order.
NodeAttrs(a) == [i \in 1..Len(a) |-> [name |-> a[i].name, value |-> Decode(a[i].raw)]]

\* Sibling nodes from position i up to the next unmatched end tag.
\* A node is [kind, name, attrs, text, children, range], range = <<start, end>>.
RECURSIVE ParseNodes(_, _)
ParseNodes(src, i) ==
    IF i > Len(src) \/ src[i].k = "close"
    THEN [ok |-> TRUE, nodes |-> <<>>, next |-> i]
    ELSE
      LET x == src[i] IN
      CASE x.k = "text" ->
             LET j == TextEnd(src, i)
                 us == [p \in 1..(j - i) |-> src[i + p - 1].n[1]]
                 rest == ParseNodes(src, j)
             IN  IF \E p \in 1..Len(us) : ~TextUnitOk(us[p])
                 THEN [ok |-> FALSE, nodes |-> <<>>, next |-> i]
                 ELSE [rest EXCEPT !.nodes =
                         <<[kind |-> "text", name |-> <<>>, attrs |-> <<>>,
                            text |-> Decode(us), children |-> <<>>,
                            range |-> <<i, j>>]>> \o @]
        [] x.k = "comment" ->
             LET rest == ParseNodes(src, i + 1)
             IN  [rest EXCEPT !.nodes =
                     <<[kind |-> "comment", name |-> <<>>, attrs |-> <<>>,
                        text |-> <<>>, children |-> <<>>,
                        range |-> <<i, i + 1>>]>> \o @]
        [] x.k = "empty" ->
             LET rest == ParseNodes(src, i + 1)
             IN  IF ~AttrsOk(x.a)
                 THEN [ok |-> FALSE, nodes |-> <<>>, next |-> i]
                 ELSE [rest EXCEPT !.nodes =
                         <<[kind |-> "element", name |-> x.n,
                            attrs |-> NodeAttrs(x.a), text |-> <<>>,
                            children |-> <<>>, range |-> <<i, i + 1>>]>> \o @]
        [] x.k = "open" ->
             LET inner == ParseNodes(src, i + 1)
                 e == inner.next
             IN  IF ~AttrsOk(x.a) \/ ~inner.ok \/ e > Len(src)
                 THEN [ok |-> FALSE, nodes |-> <<>>, next |-> i]
                 ELSE IF src[e].n # x.n
                 THEN [ok |-> FALSE, nodes |-> <<>>, next |-> i]
                 ELSE LET rest == ParseNodes(src, e + 1)
                      IN  [rest EXCEPT !.nodes =
                             <<[kind |-> "element", name |-> x.n,
                                attrs |-> NodeAttrs(x.a), text |-> <<>>,
                                children |-> inner.nodes,
                                range |-> <<i, e + 1>>]>> \o @]

\* roxmltree::Document::parse: one root element holding everything.
DocumentParse(src) ==
    LET r == ParseNodes(src, 1)
    IN  IF r.ok /\ r.next = Len(src) + 1 /\ Len(r.nodes) = 1
           /\ r.nodes[1].kind = "element"
        THEN [ok |-> TRUE, root |-> r.nodes[1]]
        ELSE [ok |-> FALSE, root |-> <<>>]

IsElement(n) == n.kind = "element"
IsText(n) == n.kind = "text"

\* children().filter(|n| n.is_element() && n.tag_name().name() == name)
ChildElements(node, name) ==
    LET T(n) == IsElement(n) /\ n.name = name IN SelectSeq(node.children, T)

\* children().find(|n| n.is_text())
FirstTextChild(node) ==
    LET T(n) == IsText(n)
        ts == SelectSeq(node.children, T)
    IN  IF ts = <<>> THEN None ELSE Some(ts[1])

\* Node::text(): the text of the first child when that child is a text node.
NodeText(node) ==
    IF node.children # <<>> /\ IsText(node.children[1])
    THEN Some(node.children[1].text) ELSE None

\* Node::attribute(name)
NodeAttribute(node, name) ==
    LET T(a) == a.name = name
        as == SelectSeq(node.attrs, T)
    IN  IF as = <<>> THEN None ELSE Some(as[1].value)

(***************************************************************************)
(* The typed model.  ProjectProperties and DccOptions stand for the seven  *)
(* typed structs, which are all built by the same macros over Option       *)
(* fields; DccOptions also carries its warning_directives map.             *)
(***************************************************************************)
ProjectPropertiesDefault ==
    [project_version |-> None, config |-> None, configuration |-> None,
     platform |-> None, project_name |-> None, main_source |-> None,
     base |-> None]

DccOptionsDefault ==
    [define |-> None, exe_output |-> None, warning_directives |-> EmptyMap]

PropertyGroupDefault ==
    [condition |-> None,
     project_properties |-> ProjectPropertiesDefault,
     dcc_options |-> DccOptionsDefault,
     other |-> EmptyMap]

\* Each setter answers [hit, val]: whether it knows the tag, and the struct.
set_project_property(tag, text, p) ==
    CASE tag = S_ProjectVersion -> [hit |-> TRUE, val |-> [p EXCEPT !.project_version = Some(text)]]
      [] tag = S_Config         -> [hit |-> TRUE, val |-> [p EXCEPT !.config = Some(text)]]
      [] tag = S_Configuration  -> [hit |-> TRUE, val |-> [p EXCEPT !.configuration = Some(text)]]
      [] tag = S_Platform       -> [hit |-> TRUE, val |-> [p EXCEPT !.platform = Some(text)]]
      [] tag = S_ProjectName    -> [hit |-> TRUE, val |-> [p EXCEPT !.project_name = Some(text)]]
      [] tag = S_MainSource     -> [hit |-> TRUE, val |-> [p EXCEPT !.main_source = Some(text)]]
      [] tag = S_Base           -> [hit |-> TRUE, val |-> [p EXCEPT !.base = Some(text)]]
      [] OTHER                  -> [hit |-> FALSE, val |-> p]

set_dcc_option(tag, text, o) ==
    CASE tag = S_DCC_Define    -> [hit |-> TRUE, val |-> [o EXCEPT !.define = Some(text)]]
      [] tag = S_DCC_ExeOutput -> [hit |-> TRUE, val |-> [o EXCEPT !.exe_output = Some(text)]]
      [] tag \notin {S_DCC_Define, S_DCC_ExeOutput} /\ StartsWith(tag, S_DCC_Prefix) ->
             [hit |-> TRUE,
              val |-> [o EXCEPT !.warning_directives = Insert(@, tag, text)]]
      [] OTHER -> [hit |-> FALSE, val |-> o]

\* The typed / catch-all dispatch of one child element of a PropertyGroup.
ParseDispatch(pg, tag, text) ==
    LET pp == set_project_property(tag, text, pg.project_properties)
        dcc == set_dcc_option(tag, text, pg.dcc_options)
    IN  IF pp.hit THEN [pg EXCEPT !.project_properties = pp.val]
        ELSE IF dcc.hit THEN [pg EXCEPT !.dcc_options = dcc.val]
        ELSE [pg EXCEPT !.other = Insert(@, tag, text)]

RECURSIVE ParseChildrenFrom(_, _, _)
ParseChildrenFrom(pg, els, i) ==
    IF i > Len(els) THEN pg
    ELSE LET t == NodeText(els[i])
             text == IF IsSome(t) THEN Unwrap(t) ELSE <<>>
         IN  ParseChildrenFrom(ParseDispatch(pg, els[i].name, text), els, i + 1)

PropertyGroup_parse(node) ==
    LET T(n) == IsElement(n)
    IN  ParseChildrenFrom(
            [PropertyGroupDefault EXCEPT !.condition = NodeAttribute(node, S_Condition)],
            SelectSeq(node.children, T), 1)

find_child_text(parent, tag) ==
    LET es == ChildElements(parent, tag)
    IN  IF es = <<>> THEN None ELSE NodeText(es[1])

ItemGroup_parse(node) ==
    LET bcs == ChildElements(node, S_BuildConfiguration)
    IN  [build_configurations |->
            [i \in 1..Len(bcs) |->
                LET inc == NodeAttribute(bcs[i], S_Include)
                    key == find_child_text(bcs[i], S_Key)
                IN  [name |-> IF IsSome(inc) THEN Unwrap(inc) ELSE <<>>,
                     key |-> IF IsSome(key) THEN Unwrap(key) ELSE <<>>,
                     cfg_parent |-> find_child_text(bcs[i], S_CfgParent)]]]

DprojProject_parse(root) ==
    LET pgs == ChildElements(root, S_PropertyGroup)
        igs == ChildElements(root, S_ItemGroup)
    IN  [property_groups |-> [i \in 1..Len(pgs) |-> PropertyGroup_parse(pgs[i])],
         item_groups |-> [i \in 1..Len(igs) |-> ItemGroup_parse(igs[i])]]

\* Dproj::parse: the typed project of a source, or the XML error.
Dproj_parse(src) ==
    LET doc == DocumentParse(src)
    IN  IF doc.ok THEN [ok |-> TRUE, project |-> DprojProject_parse(doc.root)]
        ELSE [ok |-> FALSE, project |-> <<>>]

(***************************************************************************)
(* Merging, expansion and collection of PropertyGroups                     *)
(***************************************************************************)
\* Mutant: a field that is already set is kept.
merge_option_KeepFirst(self, other) == IF IsSome(self) THEN self ELSE other

\* Mutant: the other group's field is taken even when it is absent.
merge_option_Overwrite(self, other) == other

\* merge_options!, for one field: other's value when it is Some.
merge_option(self, other) == IF IsSome(other) THEN other ELSE self

\* for (k, v) in &other.map { self.map.insert(k, v) }
merge_map(self, other) ==
    [k \in (DOMAIN self) \cup (DOMAIN other) |->
        IF k \in DOMAIN other THEN other[k] ELSE self[k]]

ProjectProperties_merge_from(self, o) ==
    [project_version |-> merge_option(self.project_version, o.project_version),
     config |-> merge_option(self.config, o.config),
     configuration |-> merge_option(self.configuration, o.configuration),
     platform |-> merge_option(self.platform, o.platform),
     project_name |-> merge_option(self.project_name, o.project_name),
     main_source |-> merge_option(self.main_source, o.main_source),
     base |-> merge_option(self.base, o.base)]

DccOptions_merge_from(self, o) ==
    [define |-> merge_option(self.define, o.define),
     exe_output |-> merge_option(self.exe_output, o.exe_output),
     warning_directives |-> merge_map(self.warning_directives, o.warning_directives)]

\* PropertyGroup::merge_from (the condition of self is left alone)
merge_from(self, other) ==
    [condition |-> self.condition,
     project_properties |->
         ProjectProperties_merge_from(self.project_properties, other.project_properties),
     dcc_options |-> DccOptions_merge_from(self.dcc_options, other.dcc_options),
     other |-> merge_map(self.other, other.other)]

\* if v.contains("$(") { *v = expand_msbuild_vars(v, vars) }
expand_value(v, vs) == IF ContainsVarRef(v) THEN expand_msbuild_vars(v, vs) ELSE v

\* expand_options!, for one field
expand_option(f, vs) == IF IsSome(f) THEN Some(expand_value(Unwrap(f), vs)) ELSE f

\* Mutant: the values of a catch-all map are left as written.
expand_map_Untouched(m, vs) == m

\* for v in map.values_mut(): expanded when it contains "$("
expand_map(m, vs) == [k \in DOMAIN m |-> expand_value(m[k], vs)]

ProjectProperties_expand_vars(self, vs) ==
    [project_version |-> expand_option(self.project_version, vs),
     config |-> expand_option(self.config, vs),
     configuration |-> expand_option(self.configuration, vs),
     platform |-> expand_option(self.platform, vs),
     project_name |-> expand_option(self.project_name, vs),
     main_source |-> expand_option(self.main_source, vs),
     base |-> expand_option(self.base, vs)]

DccOptions_expand_vars(self, vs) ==
    [define |-> expand_option(self.define, vs),
     exe_output |-> expand_option(self.exe_output, vs),
     warning_directives |-> expand_map(self.warning_directives, vs)]

\* Mutant: the compiler options are expanded against the map with the
\* unrecognised tags of the group itself already in it.
expand_vars_SeesSiblings(self, vs) ==
    [condition |-> self.condition,
     project_properties |-> ProjectProperties_expand_vars(self.project_properties, vs),
     dcc_options |-> DccOptions_expand_vars(self.dcc_options,
                                            merge_map(vs, self.other)),
     other |-> expand_map(self.other, vs)]

\* PropertyGroup::expand_vars
expand_vars(self, vs) ==
    [condition |-> self.condition,
     project_properties |-> ProjectProperties_expand_vars(self.project_properties, vs),
     dcc_options |-> DccOptions_expand_vars(self.dcc_options, vs),
     other |-> expand_map(self.other, vs)]

\* collect_tag_values!, for one field
collect_tag_value(map, tag, f) == IF IsSome(f) THEN Insert(map, tag, Unwrap(f)) ELSE map

ProjectProperties_collect_into_vars(self, vs) ==
    LET v1 == collect_tag_value(vs, S_ProjectVersion, self.project_version)
        v2 == collect_tag_value(v1, S_Config, self.config)
        v3 == collect_tag_value(v2, S_Configuration, self.configuration)
        v4 == collect_tag_value(v3, S_Platform, self.platform)
        v5 == collect_tag_value(v4, S_ProjectName, self.project_name)
        v6 == collect_tag_value(v5, S_MainSource, self.main_source)
    IN  collect_tag_value(v6, S_Base, self.base)

DccOptions_collect_into_vars(self, vs) ==
    LET v1 == collect_tag_value(vs, S_DCC_Define, self.define)
        v2 == collect_tag_value(v1, S_DCC_ExeOutput, self.exe_output)
    IN  merge_map(v2, self.warning_directives)

\* PropertyGroup::collect_into_vars
collect_into_vars(self, vs) ==
    merge_map(
        DccOptions_collect_into_vars(self.dcc_options,
            ProjectProperties_collect_into_vars(self.project_properties, vs)),
        self.other)

(***************************************************************************)
(* Build variables and the resolver                                        *)
(***************************************************************************)
\* The last position of character c in s (0 when absent).
LastIndexOf(s, c) ==
    LET I == {i \in 1..Len(s) : s[i] = c}
    IN  IF I = {} THEN 0 ELSE CHOOSE i \in I : \A j \in I : j <= i

\* Path::file_stem: the final component without its extension.
file_stem(path) ==
    LET name == Drop(path, LastIndexOf(path, "/"))
        dot == LastIndexOf(name, ".")
    IN  IF name = <<>> \/ name = <<".", ".">> THEN None
        ELSE IF dot <= 1 THEN Some(name)
        ELSE Some(SubSeq(name, 1, dot - 1))

\* The first element of a set of positions.
First(I) == CHOOSE i \in I : \A j \in I : i <= j

\* Dproj::project_stem
project_stem(proj) ==
    LET pgs == proj.property_groups
        U == {i \in 1..Len(pgs) : ~IsSome(pgs[i].condition)}
        N == {i \in U : IsSome(pgs[i].project_properties.project_name)}
        M == {i \in U : IsSome(pgs[i].project_properties.main_source)}
    IN  IF N # {} THEN pgs[First(N)].project_properties.project_name
        ELSE IF M # {}
        THEN file_stem(Unwrap(pgs[First(M)].project_properties.main_source))
        ELSE None

RECURSIVE Flatten(_)
Flatten(ss) == IF ss = <<>> THEN <<>> ELSE Head(ss) \o Flatten(Tail(ss))

\* item_groups.iter().flat_map(|ig| &ig.build_configurations)
build_configs(proj) ==
    Flatten([i \in 1..Len(proj.item_groups) |-> proj.item_groups[i].build_configurations])

\* Dproj::configurations
configurations(proj) ==
    LET bcs == build_configs(proj) IN [i \in 1..Len(bcs) |-> bcs[i].name]

\* Mutant: the environment is laid over the three variables.
seed_vars_EnvironmentLast(environment, proj, config, platform) ==
    LET stem == project_stem(proj)
        v0 == Insert(Insert(Insert(EmptyMap, S_Config, config), S_Configuration, config),
                     S_Platform, platform)
        v1 == merge_map(v0, environment)
    IN  IF IsSome(stem) THEN Insert(v1, S_MSBuildProjectName, Unwrap(stem)) ELSE v1

\* The seeding of resolve_build_variables: the environment, the project
\* stem, then Config, Configuration and Platform.
seed_vars(environment, proj, config, platform) ==
    LET stem == project_stem(proj)
        v0 == IF IsSome(stem)
              THEN Insert(environment, S_MSBuildProjectName, Unwrap(stem))
              ELSE environment
    IN  Insert(Insert(Insert(v0, S_Config, config), S_Configuration, config),
               S_Platform, platform)

\* Mutant: the selected configuration is not looked for.
config_exists_Any(bcs, config) == TRUE

\* build_configs.iter().any(|bc| bc.name == config)
config_exists(bcs, config) == \E i \in 1..Len(bcs) : bcs[i].name = config

\* Mutant: the last node of the name is taken.
find_config_Last(bcs, name) ==
    LET I == {i \in 1..Len(bcs) : bcs[i].name = name}
    IN  IF I = {} THEN None ELSE Some(bcs[CHOOSE i \in I : \A j \in I : j <= i])

\* build_configs.iter().find(|bc| bc.name == current_name)
find_config(bcs, name) ==
    LET I == {i \in 1..Len(bcs) : bcs[i].name = name}
    IN  IF I = {} THEN None ELSE Some(bcs[First(I)])

\* format!("{}_{}", bc.key, platform)
key_platform(key, platform) == key \o <<"_">> \o platform

NoError == [kind |-> "none", index |-> 0, tag |-> <<>>]
ConfigNotFound(config) == [kind |-> "config_not_found", index |-> 0, tag |-> config]
ConditionError(input) == [kind |-> "condition", index |-> 0, tag |-> input]

\* Mutant: the build variables are not put back.
reassert_Skip(vs, bvs) == vs

\* for (k, v) in &build_vars { vars.insert(k, v) }
reassert(vs, bvs) == merge_map(vs, bvs)

NoDefaultConfig == [kind |-> "no_default_config", index |-> 0, tag |-> <<>>]
NoDefaultPlatform == [kind |-> "no_default_platform", index |-> 0, tag |-> <<>>]

\* Mutant: the merged fields are not fed back into the map.
apply_group_NoFeedback(merged, vs, bvs) ==
    [ok |-> TRUE, matches |-> TRUE, vars |-> vs, result |-> merged,
     err |-> NoError]

\* The end of an iteration on a group that applies, merged being the
\* accumulator after merge_from: its fields are collected into the map and
\* the build variables are put back over them.
apply_group(merged, vs, bvs) ==
    [ok |-> TRUE, matches |-> TRUE,
     vars |-> reassert(collect_into_vars(merged, vs), bvs),
     result |-> merged, err |-> NoError]

\* Mutant: a group whose condition does not parse is passed over.
evaluate_group_SkipsUnparsed(pg, vs, bvs, result) ==
    IF IsSome(pg.condition)
       /\ (~parse_condition(Unwrap(pg.condition)).ok
           \/ ~evaluate(parse_condition(Unwrap(pg.condition)).expr, vs))
    THEN [ok |-> TRUE, matches |-> FALSE, vars |-> vs, result |-> result,
          err |-> NoError]
    ELSE apply_group(merge_from(result, expand_vars(pg, vs)), vs, bvs)

\* One iteration of the group loop of active_property_group_for on group pg:
\* whether the condition parsed, whether the group applied, and the
\* variable map and accumulator after it.
evaluate_group(pg, vs, bvs, result) ==
    IF IsSome(pg.condition) /\ ~parse_condition(Unwrap(pg.condition)).ok
    THEN [ok |-> FALSE, matches |-> FALSE, vars |-> vs, result |-> result,
          err |-> ConditionError(Unwrap(pg.condition))]
    ELSE IF IsSome(pg.condition)
            /\ ~evaluate(parse_condition(Unwrap(pg.condition)).expr, vs)
    THEN [ok |-> TRUE, matches |-> FALSE, vars |-> vs, result |-> result,
          err |-> NoError]
    ELSE apply_group(merge_from(result, expand_vars(pg, vs)), vs, bvs)

RECURSIVE walk(_, _, _, _, _)
RECURSIVE walk_node(_, _, _, _, _)

\* The loop of resolve_build_variables from current_name on, as a function:
\* the map when the loop is left.
walk(bcs, platform, current_name, visited, vs) ==
    IF \E i \in 1..Len(visited) : visited[i] = current_name THEN vs
    ELSE IF ~IsSome(find_config(bcs, current_name)) THEN vs
    ELSE walk_node(bcs, platform, Unwrap(find_config(bcs, current_name)),
                   Append(visited, current_name), vs)

\* The rest of an iteration that found the node bc.
walk_node(bcs, platform, bc, visited, vs) ==
    IF ~IsSome(bc.cfg_parent)
    THEN Insert(Insert(vs, bc.key, S_true), key_platform(bc.key, platform), S_true)
    ELSE walk(bcs, platform, Unwrap(bc.cfg_parent), visited,
              Insert(Insert(vs, bc.key, S_true), key_platform(bc.key, platform), S_true))

\* Dproj::resolve_build_variables, as a function of the handle's fields.
resolve_build_variables(environment, proj, config, platform) ==
    IF ~config_exists(build_configs(proj), config)
    THEN [ok |-> FALSE, err |-> ConfigNotFound(config), vars |-> EmptyMap]
    ELSE [ok |-> TRUE, err |-> NoError,
          vars |-> walk(build_configs(proj), platform, config, <<>>,
                        seed_vars(environment, proj, config, platform))]

RECURSIVE fold_groups(_, _, _, _, _)
RECURSIVE fold_next(_, _, _, _)

\* The loop over property_groups from group i on, as a function: what the
\* call returns.
fold_groups(pgs, i, vs, bvs, result) ==
    IF i > Len(pgs) THEN [ret |-> "ok", err |-> NoError, result |-> result]
    ELSE fold_next(pgs, i, bvs, evaluate_group(pgs[i], vs, bvs, result))

\* After the iteration on group i with outcome r.
fold_next(pgs, i, bvs, r) ==
    IF ~r.ok THEN [ret |-> "err", err |-> r.err, result |-> PropertyGroupDefault]
    ELSE fold_groups(pgs, i + 1, r.vars, bvs, r.result)

\* The group pass entered with the build variables b.
groups_pass(proj, b) ==
    IF ~b.ok THEN [ret |-> "err", err |-> b.err, result |-> PropertyGroupDefault]
    ELSE fold_groups(proj.property_groups, 1, b.vars, b.vars, PropertyGroupDefault)

\* Dproj::active_property_group_for, as a function of the handle's fields:
\* Ok(result) or the error (an error carries no result).
active_property_group_for(environment, proj, config, platform) ==
    groups_pass(proj, resolve_build_variables(environment, proj, config, platform))

(***************************************************************************)
(* Source splicer                                                          *)
(***************************************************************************)
\* String::replace_range(start..end, with)
replace_range(src, range, with) ==
    SubSeq(src, 1, range[1] - 1) \o with \o SubSeq(src, range[2], Len(src))

\* format!(" {}=\"{}\"", a.name(), a.value()) for every attribute: the value
\* is written as its resolved characters, read back by the tokenizer.
FormatAttrs(attrs) ==
    [i \in 1..Len(attrs) |-> Attr(attrs[i].name, Units(attrs[i].value))]

\* format!("<{name}{attrs}>{value}</{name}>")
FormatElement(name, attrs, value) ==
    <<Open(name, FormatAttrs(attrs))>> \o TextLexemes(value) \o <<Close(name)>>

XmlError == [kind |-> "xml", index |-> 0, tag |-> <<>>]
\* Mutant: the message does not name the index.
IndexErrorUnnamed(i) == [kind |-> "index_out_of_bounds", index |-> 0, tag |-> <<>>]
IndexError(i) == [kind |-> "index_out_of_bounds", index |-> i, tag |-> <<>>]
ElementError(i, t) == [kind |-> "element_not_found", index |-> i, tag |-> t]
DefaultError(c) == [kind |-> "no_default_element", index |-> 0, tag |-> c]
Panic == [kind |-> "panic", index |-> 0, tag |-> <<>>]

\* Mutant: the element is always rewritten as a whole.
SpliceElementWhole(src, element, value) ==
    [source |-> replace_range(src, element.range,
                    FormatElement(element.name, element.attrs, value)),
     branch |-> IF IsSome(FirstTextChild(element)) THEN "text" ELSE "element"]

\* The text-level edit of set_property_value on a located element.
SpliceElement(src, element, value) ==
    LET t == FirstTextChild(element)
    IN  IF IsSome(t)
        THEN [source |-> replace_range(src, Unwrap(t).range, TextLexemes(value)),
              branch |-> "text"]
        ELSE [source |-> replace_range(src, element.range,
                            FormatElement(element.name, element.attrs, value)),
              branch |-> "element"]

\* The targeted in-memory update of set_property_value.
UpdateDispatch(pg, tag, value) ==
    LET pp == set_project_property(tag, value, pg.project_properties)
        dcc == set_dcc_option(tag, value, pg.dcc_options)
    IN  IF pp.hit THEN [pg EXCEPT !.project_properties = pp.val]
        ELSE IF dcc.hit THEN [pg EXCEPT !.dcc_options = dcc.val]
        ELSE [pg EXCEPT !.other = Insert(@, tag, value)]

\* Mutant: the in-memory update runs before the element is looked up.
set_property_value_UpdateFirst(src, proj, pg_index, tag, value) ==
    LET doc == DocumentParse(src)
        same(e) == [source |-> src, project |-> proj, err |-> e, branch |-> "none"]
    IN  IF ~doc.ok THEN same(XmlError)
        ELSE
        LET pgs == ChildElements(doc.root, S_PropertyGroup)
        IN  IF pg_index >= Len(pgs) \/ pg_index >= Len(proj.property_groups)
            THEN same(IndexError(pg_index))
            ELSE
            LET es == ChildElements(pgs[pg_index + 1], tag)
                updated == [proj EXCEPT !.property_groups[pg_index + 1] =
                               UpdateDispatch(@, tag, value)]
            IN  IF es = <<>>
                THEN [source |-> src, project |-> updated,
                      err |-> ElementError(pg_index, tag), branch |-> "none"]
                ELSE LET sp == SpliceElement(src, es[1], value)
                     IN  [source |-> sp.source, project |-> updated,
                          err |-> NoError, branch |-> sp.branch]

\* Dproj::set_property_value: the new source and project, and the outcome.
set_property_value(src, proj, pg_index, tag, value) ==
    LET doc == DocumentParse(src)
        same(e) == [source |-> src, project |-> proj, err |-> e, branch |-> "none"]
    IN  IF ~doc.ok THEN same(XmlError)
        ELSE
        LET pgs == ChildElements(doc.root, S_PropertyGroup)
        IN  IF pg_index >= Len(pgs) THEN same(IndexError(pg_index))
            ELSE
            LET es == ChildElements(pgs[pg_index + 1], tag)
            IN  IF es = <<>> THEN same(ElementError(pg_index, tag))
                ELSE
                LET sp == SpliceElement(src, es[1], value)
                IN  IF pg_index >= Len(proj.property_groups)
                    THEN [source |-> sp.source, project |-> proj,
                          err |-> Panic, branch |-> sp.branch]
                    ELSE [source |-> sp.source,
                          project |-> [proj EXCEPT !.property_groups[pg_index + 1] =
                                          UpdateDispatch(@, tag, value)],
                          err |-> NoError, branch |-> sp.branch]

\* The first unconditional PropertyGroup node (0-based index among all
\* PropertyGroup nodes) holding one of the candidates, the first such
\* candidate, and its first element.
FindDefault(pgs, candidates) ==
    LET has(i, c) == ChildElements(pgs[i], c) # <<>>
        hit(i) == /\ ~IsSome(NodeAttribute(pgs[i], S_Condition))
                  /\ \E c \in 1..Len(candidates) : has(i, candidates[c])
        I == {i \in 1..Len(pgs) : hit(i)}
    IN  IF I = {} THEN None
        ELSE LET i == CHOOSE x \in I : \A y \in I : x <= y
                 c == CHOOSE x \in 1..Len(candidates) :
                        /\ has(i, candidates[x])
                        /\ \A y \in 1..Len(candidates) : has(i, candidates[y]) => x <= y
             IN  Some([pg_idx |-> i - 1, tag |-> candidates[c],
                       element |-> ChildElements(pgs[i], candidates[c])[1]])

\* The closure of set_configuration: update whichever field was present.
UpdateConfiguration(pp, v) ==
    LET p1 == IF IsSome(pp.config) THEN [pp EXCEPT !.config = Some(v)] ELSE pp
    IN  IF IsSome(p1.configuration) THEN [p1 EXCEPT !.configuration = Some(v)] ELSE p1

\* The closure of set_platform.
UpdatePlatform(pp, v) == [pp EXCEPT !.platform = Some(v)]

\* update_fn(pp, value): the closure the caller hands to set_default_element,
\* named by the setter that built it.
update_fn(setter, pp, v) ==
    IF setter = "set_configuration" THEN UpdateConfiguration(pp, v)
    ELSE UpdatePlatform(pp, v)

\* Dproj::set_default_element
set_default_element(src, proj, candidates, value, setter) ==
    LET doc == DocumentParse(src)
        same(e) == [source |-> src, project |-> proj, err |-> e, branch |-> "none"]
    IN  IF ~doc.ok THEN same(XmlError)
        ELSE
        LET found == FindDefault(ChildElements(doc.root, S_PropertyGroup), candidates)
        IN  IF ~IsSome(found) THEN same(DefaultError(candidates))
            ELSE
            LET f == Unwrap(found)
                text == FirstTextChild(f.element)
                newsrc == IF IsSome(text)
                          THEN replace_range(src, Unwrap(text).range, TextLexemes(value))
                          ELSE replace_range(src, f.element.range,
                                   FormatElement(f.tag, f.element.attrs, value))
                branch == IF IsSome(text) THEN "text" ELSE "element"
            IN  IF f.pg_idx >= Len(proj.property_groups)
                THEN [source |-> newsrc, project |-> proj, err |-> Panic,
                      branch |-> branch]
                ELSE [source |-> newsrc,
                      project |-> [proj EXCEPT
                          !.property_groups[f.pg_idx + 1].project_properties =
                              update_fn(setter, @, value)],
                      err |-> NoError, branch |-> branch]

set_configuration(src, proj, value) ==
    set_default_element(src, proj, <<S_Config, S_Configuration>>, value,
                        "set_configuration")

set_platform(src, proj, value) ==
    set_default_element(src, proj, <<S_Platform>>, value, "set_platform")

\* Mutant: only the first unconditional group is looked at.
active_config_platform_FirstGroup(proj) ==
    LET pgs == proj.property_groups
        U == {i \in 1..Len(pgs) : ~IsSome(pgs[i].condition)}
        g == CHOOSE x \in U : \A y \in U : x <= y
    IN  IF U = {} THEN [config |-> None, platform |-> None]
        ELSE [config |-> IF IsSome(pgs[g].project_properties.config)
                         THEN pgs[g].project_properties.config
                         ELSE pgs[g].project_properties.configuration,
              platform |-> pgs[g].project_properties.platform]

\* Dproj::active_config_platform on the typed model.
active_config_platform(proj) ==
    LET pgs == proj.property_groups
        U == {i \in 1..Len(pgs) : ~IsSome(pgs[i].condition)}
        cfg(i) == IF IsSome(pgs[i].project_properties.config)
                  THEN pgs[i].project_properties.config
                  ELSE pgs[i].project_properties.configuration
        C == {i \in U : IsSome(cfg(i))}
        P == {i \in U : IsSome(pgs[i].project_properties.platform)}
        first(S) == CHOOSE x \in S : \A y \in S : x <= y
    IN  [config |-> IF C = {} THEN None ELSE cfg(first(C)),
         platform |-> IF P = {} THEN None
                      ELSE pgs[first(P)].project_properties.platform]

active_configuration(proj) == active_config_platform(proj).config
active_platform(proj) == active_config_platform(proj).platform

(***************************************************************************)
(* The document handle under mutation                                      *)
(***************************************************************************)
El(name, attrs, content) == <<Open(name, attrs)>> \o content \o <<Close(name)>>
Cond(c) == <<Attr(S_Condition, Units(c))>>
Doc(groups) == El(S_Project, <<>>, groups)

\* A default group after a conditional one; Config and Configuration both.
DocDefaults ==
    Doc(El(S_PropertyGroup, Cond(<<"c">>), El(S_Config, <<>>, TextLexemes(<<"x">>)))
        \o El(S_PropertyGroup, <<>>,
              El(S_Config, <<>>, TextLexemes(<<"x">>))
              \o El(S_Configuration, <<>>, TextLexemes(<<"x">>))
              \o El(S_Platform, <<>>, TextLexemes(<<"y">>))))

\* Typed, warning-directive and unrecognised tags, with text between them.
DocPlain ==
    Doc(El(S_PropertyGroup, <<>>,
           El(S_Config, <<>>, TextLexemes(<<"x">>))
           \o TextLexemes(<<" ">>)
           \o El(S_DCC_W, <<>>, TextLexemes(<<"x">>))
           \o El(S_MyTag, <<>>, TextLexemes(<<"x", "y">>))
           \o El(S_Platform, <<>>, TextLexemes(<<"y">>))))

\* Empty and self-closing elements, with attributes.
DocEmpty ==
    Doc(El(S_PropertyGroup, <<>>,
           <<Empty(S_Platform, Cond(<<"c">>) \o <<Attr(S_Include, <<"i">>)>>)>>
           \o El(S_Config, Cond(<<"c">>), <<>>)
           \o <<Empty(S_MyTag, <<>>)>>
           \o <<Empty(S_DCC_W, Cond(<<"a", "&", "a", "m", "p", ";", "b">>))>>))

\* The same tag twice in one group.
DocTwice ==
    Doc(El(S_PropertyGroup, <<>>,
           El(S_MyTag, <<>>, TextLexemes(<<"x">>))
           \o El(S_MyTag, <<>>, TextLexemes(<<"y">>))
           \o El(S_Platform, <<>>, TextLexemes(<<"y">>))))

\* A comment before and after the text of an element.
DocComment ==
    Doc(El(S_PropertyGroup, <<>>,
           El(S_MyTag, <<>>, TextLexemes(<<"x">>) \o <<Comment>> \o TextLexemes(<<"y">>))
           \o El(S_DCC_W, <<>>, <<Comment>> \o TextLexemes(<<"x">>))))

Documents == {DocDefaults, DocPlain, DocEmpty, DocTwice, DocComment}

\* Values a caller may pass: empty, plain, with a "<", with a reference.
Values == {<<>>, <<"a">>, <<"<">>, S_AmpEntity}
Tags == {S_Config, S_Platform, S_DCC_W, S_MyTag}

NoCall == [op |-> "parse", pg_index |-> 0, tag |-> <<>>, value |-> <<>>,
           err |-> NoError, branch |-> "none"]

\* No resolution in progress.
Idle ==
    [pc |-> "idle", config |-> <<>>, platform |-> <<>>, vars |-> EmptyMap,
     build_vars |-> EmptyMap, result |-> PropertyGroupDefault, idx |-> 0,
     current_name |-> <<>>, visited |-> <<>>, ret |-> "none", err |-> NoError,
     entry |-> "none",
     hist |-> <<>>]

\* No condition under evaluation.
NoCondition ==
    [pc |-> "none", atoms |-> <<>>, kws |-> <<>>, group |-> <<>>, flaw |-> "none",
     layout |-> [pad |-> <<>>, kw |-> "lower"], input |-> <<>>, vars |-> EmptyMap,
     parsed |-> [ok |-> FALSE, expr |-> <<>>, input |-> <<>>], value |-> FALSE,
     raw |-> <<>>, text |-> <<>>, parts |-> <<>>, joined |-> <<>>, printed |-> <<>>,
     reparsed |-> [ok |-> FALSE, expr |-> <<>>, input |-> <<>>]]

NoRsvars == [pc |-> "none", environment |-> EmptyMap, content |-> <<>>,
             vars |-> EmptyMap, hist |-> <<>>]

NoMerge == [init |-> PropertyGroupDefault, acc |-> PropertyGroupDefault, seq |-> <<>>]

Init ==
    /\ source \in Documents
    /\ project = Dproj_parse(source).project
    /\ call = NoCall
    /\ pre = [source |-> source, project |-> project]
    /\ ncalls = 0
    /\ env = EmptyMap
    /\ run = Idle
    /\ parked = Idle
    /\ cond = NoCondition
    /\ rsvars = NoRsvars
    /\ merge = NoMerge

SetPropertyValue(pg_index, tag, value) ==
    /\ ncalls < MaxCalls
    /\ LET r == set_property_value(source, project, pg_index, tag, value)
       IN  /\ source' = r.source
           /\ project' = r.project
           /\ call' = [op |-> "set_property_value", pg_index |-> pg_index,
                       tag |-> tag, value |-> value, err |-> r.err,
                       branch |-> r.branch]
    /\ pre' = [source |-> source, project |-> project]
    /\ ncalls' = ncalls + 1
    /\ UNCHANGED <<env, run, merge, parked, cond, rsvars>>

SetConfiguration(value) ==
    /\ ncalls < MaxCalls
    /\ LET r == set_configuration(source, project, value)
       IN  /\ source' = r.source
           /\ project' = r.project
           /\ call' = [op |-> "set_configuration", pg_index |-> 0,
                       tag |-> <<>>, value |-> value, err |-> r.err,
                       branch |-> r.branch]
    /\ pre' = [source |-> source, project |-> project]
    /\ ncalls' = ncalls + 1
    /\ UNCHANGED <<env, run, merge, parked, cond, rsvars>>

SetPlatform(value) ==
    /\ ncalls < MaxCalls
    /\ LET r == set_platform(source, project, value)
       IN  /\ source' = r.source
           /\ project' = r.project
           /\ call' = [op |-> "set_platform", pg_index |-> 0,
                       tag |-> <<>>, value |-> value, err |-> r.err,
                       branch |-> r.branch]
    /\ pre' = [source |-> source, project |-> project]
    /\ ncalls' = ncalls + 1
    /\ UNCHANGED <<env, run, merge, parked, cond, rsvars>>

Next ==
    \/ \E i \in 0..Len(project.property_groups), t \in Tags, v \in Values :
          SetPropertyValue(i, t, v)
    \/ \E v \in Values : SetConfiguration(v)
    \/ \E v \in Values : SetPlatform(v)

Spec == Init /\ [][Next]_vars

\* The handle is in step: the source parses to the in-memory project.
InSync == LET p == Dproj_parse(source) IN p.ok /\ p.project = project

(***************************************************************************)
(* Properties of the source splicer                                        *)
(***************************************************************************)
Succeeded(op) == call.op = op /\ call.err = NoError
Failed(op) ==
    call.op = op /\ call.err.kind \in {"xml", "index_out_of_bounds", "element_not_found"}

PreInSync == LET p == Dproj_parse(pre.source) IN p.ok /\ p.project = pre.project

\* The element a call of set_property_value addresses in src: the first
\* child named tag of the pg_index-th PropertyGroup (None if there is none).
Target(src, pg_index, tag) ==
    LET doc == DocumentParse(src)
    IN  IF ~doc.ok THEN None
        ELSE LET pgs == ChildElements(doc.root, S_PropertyGroup)
             IN  IF pg_index >= Len(pgs) THEN None
                 ELSE LET es == ChildElements(pgs[pg_index + 1], tag)
                      IN  IF es = <<>> THEN None ELSE Some(es[1])

PreTarget == Target(pre.source, call.pg_index, call.tag)

\* C1: from a document whose source and typed model agree, a successful
\* set_property_value leaves them in agreement: parsing the new source
\* afresh yields the in-memory property groups.
C1_SetPropertyValueKeepsSync ==
    (PreInSync /\ Succeeded("set_property_value")) => InSync

\* C2: a set_property_value that returns an error (unparseable source, group
\* index out of range, tag not found) changes neither source nor model.
C2_ErrorChangesNothing ==
    Failed("set_property_value")
        => (source = pre.source /\ project = pre.project)

C2_Witness ==
    /\ call.op = "set_property_value"
    /\ call.err.kind = "element_not_found"
    /\ InSync

\* C3: when the target element has a text child, a successful
\* set_property_value replaces exactly that text node's range [start, end)
\* by the value: new = old[0..start] + value + old[end..].
C3_TextSpanReplaced ==
    (/\ Succeeded("set_property_value")
     /\ IsSome(PreTarget)
     /\ IsSome(FirstTextChild(Unwrap(PreTarget))))
    => LET old == pre.source
           r == Unwrap(FirstTextChild(Unwrap(PreTarget))).range
           v == TextLexemes(call.value)
       IN  /\ Len(source) = Len(old) - (r[2] - r[1]) + Len(v)
           /\ \A i \in 1..(r[1] - 1) : source[i] = old[i]
           /\ \A i \in 1..Len(v) : source[r[1] - 1 + i] = v[i]
           /\ \A i \in r[2]..Len(old) :
                 source[i - (r[2] - r[1]) + Len(v)] = old[i]
           /\ old[r[1] - 1].k \in {"open", "comment"}
           /\ old[r[2]].k # "text"

\* A text span followed by a comment has been replaced.
C3_Witness ==
    /\ Succeeded("set_property_value")
    /\ call.branch = "text"
    /\ call.value = <<"a">>
    /\ \E i \in 1..Len(source) :
          /\ source[i] = TextUnit("a")
          /\ source[i + 1].k = "comment"

\* C4: when the target element is empty or self-closing, a successful
\* set_property_value replaces the element's range by <tag attrs>value</tag>,
\* an element with the same attributes (names and values, in order), and
\* leaves everything outside the range unchanged.
C4_EmptyElementRewritten ==
    (/\ Succeeded("set_property_value")
     /\ IsSome(PreTarget)
     /\ ~IsSome(FirstTextChild(Unwrap(PreTarget))))
    => LET old == pre.source
           el == Unwrap(PreTarget)
           r == el.range
           v == TextLexemes(call.value)
           n == Len(v) + 2
       IN  /\ Len(source) = Len(old) - (r[2] - r[1]) + n
           /\ \A i \in 1..(r[1] - 1) : source[i] = old[i]
           /\ \A i \in r[2]..Len(old) :
                 source[i - (r[2] - r[1]) + n] = old[i]
           /\ source[r[1]].k = "open" /\ source[r[1]].n = call.tag
           /\ \A i \in 1..Len(v) : source[r[1] + i] = v[i]
           /\ source[r[1] + n - 1] = Close(call.tag)
           /\ AttrsOk(source[r[1]].a)
           /\ NodeAttrs(source[r[1]].a) = el.attrs

\* Top-level structure read off the lexemes: nesting depth before position i.
DepthBefore(src, i) ==
    Cardinality({j \in 1..(i - 1) : src[j].k = "open"})
      - Cardinality({j \in 1..(i - 1) : src[j].k = "close"})

\* Start positions of the top-level PropertyGroup elements.
GroupStarts(src) ==
    {i \in 1..Len(src) : /\ src[i].k \in {"open", "empty"}
                         /\ src[i].n = S_PropertyGroup
                         /\ DepthBefore(src, i) = 1}

\* The group starting at g has a direct child element named tag.
HasChild(src, g, tag) ==
    \E j \in (g + 1)..Len(src) :
        /\ src[j].k \in {"open", "empty"} /\ src[j].n = tag
        /\ \A m \in (g + 1)..j : DepthBefore(src, m) >= 2
        /\ DepthBefore(src, j) = 2

\* The start of the (0-based) n-th top-level group.
NthGroup(src, n) ==
    CHOOSE g \in GroupStarts(src) :
        Cardinality({h \in GroupStarts(src) : h < g}) = n

\* C5: on a parseable source, set_property_value fails with the index error
\* (naming the index) exactly when pg_index is not below the number of
\* top-level PropertyGroup elements, and with the distinct element error
\* (naming tag and index) exactly when the group exists and has no direct
\* child named tag; the index is checked before the tag.
C5_DistinctNotFoundErrors ==
    (call.op = "set_property_value" /\ DocumentParse(pre.source).ok)
    => LET n == Cardinality(GroupStarts(pre.source))
           i == call.pg_index
       IN  IF i >= n
           THEN call.err = [kind |-> "index_out_of_bounds", index |-> i,
                            tag |-> <<>>]
           ELSE IF ~HasChild(pre.source, NthGroup(pre.source, i), call.tag)
           THEN call.err = [kind |-> "element_not_found", index |-> i,
                            tag |-> call.tag]
           ELSE call.err.kind \notin {"index_out_of_bounds", "element_not_found"}

\* An index error for a tag that no group of the document holds.
C5_Witness ==
    /\ call.op = "set_property_value"
    /\ call.err.kind = "index_out_of_bounds"
    /\ call.pg_index = 1
    /\ DocumentParse(pre.source).ok
    /\ \A g \in GroupStarts(pre.source) : ~HasChild(pre.source, g, call.tag)

\* C6: from a document in step, a successful set_configuration(v) or
\* set_platform(v) leaves source and model in step, and the active
\* configuration (platform) read from the model is v.
C6_SetDefaultKeepsSync ==
    (PreInSync /\ (Succeeded("set_configuration") \/ Succeeded("set_platform")))
    => /\ InSync
       /\ Succeeded("set_configuration")
             => active_configuration(project) = Some(call.value)
       /\ Succeeded("set_platform")
             => active_platform(project) = Some(call.value)


(***************************************************************************)
(* The resolver: active_property_group_for, one step per loop iteration    *)
(***************************************************************************)
Ref(name) == <<"$", "(">> \o name \o <<")">>
Quote(str) == <<"'">> \o str \o <<"'">>
CondEq(a, b) == Quote(a) \o <<"=", "=">> \o Quote(b)
CondNe(a, b) == Quote(a) \o <<"!", "=">> \o Quote(b)
Txt(tag, str) == El(tag, <<>>, TextLexemes(str))
Group(condition, content) ==
    El(S_PropertyGroup, IF IsSome(condition) THEN Cond(Unwrap(condition)) ELSE <<>>, content)
BuildConfiguration(name, key, parent) ==
    El(S_BuildConfiguration, <<Attr(S_Include, Units(name))>>,
       Txt(S_Key, key)
       \o (IF IsSome(parent) THEN Txt(S_CfgParent, Unwrap(parent)) ELSE <<>>))

N_Base == <<"B">>
N_Debug == <<"D">>
N_Release == <<"R">>
N_Missing == <<"X">>
K_Cfg1 == <<"C", "1">>
K_Cfg2 == <<"C", "2">>
P_Win32 == <<"W">>
P_Win64 == <<"V">>

\* The usual layout: defaults, the Base group, then per-configuration groups
\* whose list properties refer to themselves.
DocTypical ==
    Doc(Group(None,
              Txt(S_Config, N_Debug) \o Txt(S_Platform, P_Win32)
              \o Txt(S_MainSource, <<"m", ".", "d">>))
        \o Group(Some(CondEq(Ref(S_Config), N_Base) \o <<" ", "o", "r", " ">>
                      \o CondNe(Ref(S_Base), <<>>)),
                 Txt(S_Base, S_true))
        \o Group(Some(CondNe(Ref(S_Base), <<>>)),
                 Txt(S_DCC_Define, <<"A", ";">> \o Ref(S_DCC_Define))
                 \o Txt(S_DCC_ExeOutput, Ref(S_Platform) \o Ref(S_MSBuildProjectName)))
        \o Group(Some(CondNe(Ref(K_Cfg1), <<>>)),
                 Txt(S_DCC_Define, <<"B", ";">> \o Ref(S_DCC_Define)))
        \o Group(Some(CondNe(Ref(key_platform(K_Cfg2, P_Win32)), <<>>)),
                 Txt(S_MyTag, Ref(S_DCC_Define) \o Ref(N_Missing)))
        \o El(S_ItemGroup, <<>>,
              BuildConfiguration(N_Base, S_Base, None)
              \o BuildConfiguration(N_Debug, K_Cfg1, Some(N_Base))
              \o BuildConfiguration(N_Release, K_Cfg2, Some(N_Base))))

\* Groups that set tags named like build variables.
DocShadow ==
    Doc(Group(None,
              Txt(S_Config, N_Release) \o Txt(S_Configuration, N_Release)
              \o Txt(S_Platform, P_Win64) \o Txt(K_Cfg1, <<"x">>))
        \o Group(Some(CondEq(Ref(S_Config), N_Debug)),
                 Txt(S_MyTag, Ref(S_Config) \o Ref(S_Platform) \o Ref(K_Cfg1)))
        \o Group(Some(CondEq(Ref(K_Cfg1), <<"x">>)),
                 Txt(S_DCC_W, <<"w">>))
        \o El(S_ItemGroup, <<>>,
              BuildConfiguration(N_Debug, K_Cfg1, None)
              \o BuildConfiguration(N_Release, K_Cfg2, None)))

\* Parent links that form a cycle, point at themselves, or point nowhere.
DocCycle ==
    Doc(Group(None, Txt(S_Config, N_Debug) \o Txt(S_Platform, P_Win32))
        \o Group(Some(CondNe(Ref(K_Cfg1), <<>>) \o <<" ", "a", "n", "d", " ">>
                      \o CondNe(Ref(K_Cfg2), <<>>)),
                 Txt(S_MyTag, <<"c">>))
        \o El(S_ItemGroup, <<>>,
              BuildConfiguration(N_Debug, K_Cfg1, Some(N_Release))
              \o BuildConfiguration(N_Release, K_Cfg2, Some(N_Debug)))
        \o El(S_ItemGroup, <<>>,
              BuildConfiguration(N_Base, S_Base, Some(N_Base))
              \o BuildConfiguration(N_Debug, S_MyTag, Some(N_Missing))))

\* A condition that does not parse, between two groups that apply.
DocBadCondition ==
    Doc(Group(None,
              Txt(S_Config, N_Debug) \o Txt(S_Platform, P_Win32)
              \o Txt(S_MyTag, <<"a">>))
        \o Group(Some(Quote(<<"a">>) \o <<"=">>), Txt(S_DCC_W, <<"w">>))
        \o Group(None, Txt(S_MyTag, <<"b">>))
        \o El(S_ItemGroup, <<>>, BuildConfiguration(N_Debug, K_Cfg1, None)))

\* A field that refers to another field of its own group.
DocSameGroup ==
    Doc(Group(None,
              Txt(S_Configuration, N_Debug)
              \o Txt(S_MyTag, <<"a">>) \o Txt(S_DCC_W, Ref(S_MyTag)))
        \o Group(None,
                 Txt(S_MyTag, <<"b">>)
                 \o Txt(S_DCC_Define, Ref(S_MyTag) \o Ref(S_DCC_W) \o <<"$", "(", "u">>))
        \o El(S_ItemGroup, <<>>, BuildConfiguration(N_Debug, K_Cfg1, None)))

\* The defaults spread over the unconditional groups: the first has none,
\* the second the configuration, the last the platform (and a second
\* configuration, under both tags).
DocSplitDefaults ==
    Doc(Group(None, Txt(S_MyTag, <<"a">>))
        \o Group(None, Txt(S_Configuration, N_Debug))
        \o Group(Some(CondEq(Ref(S_Platform), P_Win32)), Txt(S_Platform, P_Win64))
        \o Group(None,
                 Txt(S_Config, N_Release) \o Txt(S_Configuration, N_Base)
                 \o Txt(S_Platform, P_Win32))
        \o El(S_ItemGroup, <<>>,
              BuildConfiguration(N_Debug, K_Cfg1, None)
              \o BuildConfiguration(N_Release, K_Cfg2, None)))

\* A configuration in a conditional group only.
DocNoConfig ==
    Doc(Group(Some(CondEq(Ref(S_Platform), P_Win32)),
              Txt(S_Config, N_Debug) \o Txt(S_Platform, P_Win32))
        \o Group(None, Txt(S_Platform, P_Win64))
        \o El(S_ItemGroup, <<>>, BuildConfiguration(N_Debug, K_Cfg1, None)))

\* Values that bring a "$" and a "(" together: a field that ends in "$"
\* referred to right before a "(", and a reference to a variable of the
\* environment.
DocMarks ==
    Doc(Group(None,
              Txt(S_Config, N_Debug) \o Txt(S_Platform, P_Win32)
              \o Txt(S_MyTag, <<"a", "$">>))
        \o Group(None,
                 Txt(S_DCC_Define, Ref(S_MyTag) \o <<"(", "x", ")">>)
                 \o Txt(S_DCC_W, Ref(<<"E">>)))
        \o El(S_ItemGroup, <<>>, BuildConfiguration(N_Debug, K_Cfg1, None)))

\* A configuration whose key is the name of a build variable.
DocKeyConfig ==
    Doc(Group(None, Txt(S_Config, N_Debug) \o Txt(S_Platform, P_Win32))
        \o Group(Some(CondEq(Ref(S_Config), S_true)),
                 Txt(S_MyTag, Ref(S_Config) \o Ref(S_Configuration)))
        \o El(S_ItemGroup, <<>>,
              BuildConfiguration(N_Debug, S_Config, Some(N_Base))
              \o BuildConfiguration(N_Base, S_Base, None)
              \o BuildConfiguration(N_Release, K_Cfg2, None)))

\* Two conditions that do not parse, after a group that applies under one
\* configuration only.
DocBadLater ==
    Doc(Group(None, Txt(S_Config, N_Debug) \o Txt(S_Platform, P_Win32))
        \o Group(Some(CondEq(Ref(S_Config), N_Release)), Txt(S_MyTag, <<"r">>))
        \o Group(Some(Quote(<<"a">>)), Txt(S_DCC_W, <<"w">>))
        \o Group(Some(Quote(<<"a">>) \o <<"=">>), Txt(S_DCC_W, <<"v">>))
        \o El(S_ItemGroup, <<>>,
              BuildConfiguration(N_Debug, K_Cfg1, None)
              \o BuildConfiguration(N_Release, K_Cfg2, None)))

Projects ==
    {DocTypical, DocShadow, DocCycle, DocBadCondition, DocSameGroup,
     DocSplitDefaults, DocNoConfig, DocMarks, DocKeyConfig, DocBadLater}

\* Environments: none, and one whose names collide with build variables,
\* with a tag and with nothing, the last with a value written as a
\* reference.
EnvColliding ==
    Insert(Insert(Insert(Insert(EmptyMap, S_Config, <<"e">>), S_Platform, <<"e">>),
                  S_MyTag, <<"e">>), <<"E">>, Ref(S_Base))
Environments == {EmptyMap, EnvColliding}

ConfigNames == {N_Base, N_Debug, N_Release, N_Missing}
PlatformNames == {P_Win32, P_Win64}

InitResolve ==
    /\ source \in Projects
    /\ project = Dproj_parse(source).project
    /\ call = NoCall
    /\ env \in Environments
    /\ pre = [source |-> source, project |-> project, env |-> env]
    /\ ncalls = 0
    /\ run = Idle
    /\ parked = Idle
    /\ cond = NoCondition
    /\ rsvars = NoRsvars
    /\ merge = NoMerge

\* Entry of active_property_group_for(config, platform) and the part of
\* resolve_build_variables before its loop.
Enter(config, platform, entry) ==
    IF ~config_exists(build_configs(project), config)
    THEN [Idle EXCEPT !.pc = "done", !.config = config,
                      !.platform = platform, !.ret = "err",
                      !.err = ConfigNotFound(config), !.entry = entry]
    ELSE [Idle EXCEPT !.pc = "walk", !.config = config,
                      !.platform = platform,
                      !.vars = seed_vars(env, project, config, platform),
                      !.current_name = config, !.entry = entry]

ResolveFor(config, platform) ==
    /\ run.pc = "idle"
    /\ run' = Enter(config, platform, "for")
    /\ UNCHANGED <<source, project, call, pre, ncalls, env, merge, parked, cond, rsvars>>

\* active_property_group: the same, for the defaults of the file.
ActivePropertyGroup ==
    /\ run.pc = "idle"
    /\ LET d == active_config_platform(project)
       IN  IF ~IsSome(d.config)
           THEN run' = [Idle EXCEPT !.pc = "done", !.ret = "err",
                                    !.err = NoDefaultConfig, !.entry = "defaults"]
           ELSE IF ~IsSome(d.platform)
           THEN run' = [Idle EXCEPT !.pc = "done", !.ret = "err",
                                    !.err = NoDefaultPlatform, !.entry = "defaults"]
           ELSE run' = Enter(Unwrap(d.config), Unwrap(d.platform), "defaults")
    /\ UNCHANGED <<source, project, call, pre, ncalls, env, merge, parked, cond, rsvars>>

\* Mutant: the loop is not left.
EndWalk_Stay(r) == r

\* The locals when the loop of resolve_build_variables is left: the map is
\* returned, cloned into vars, and the accumulator starts empty.
EndWalk(r) ==
    [r EXCEPT !.pc = "groups", !.build_vars = r.vars,
              !.result = PropertyGroupDefault, !.idx = 1]

\* One iteration of the loop of resolve_build_variables.
WalkStep ==
    /\ run.pc = "walk"
    /\ LET bcs == build_configs(project)
           seen == \E i \in 1..Len(run.visited) : run.visited[i] = run.current_name
           visited == Append(run.visited, run.current_name)
           bc == find_config(bcs, run.current_name)
       IN  run' =
             IF seen THEN EndWalk(run)
             ELSE IF ~IsSome(bc) THEN EndWalk([run EXCEPT !.visited = visited])
             ELSE LET b == Unwrap(bc)
                      v == Insert(Insert(run.vars, b.key, S_true),
                                  key_platform(b.key, run.platform), S_true)
                      r == [run EXCEPT !.visited = visited, !.vars = v]
                  IN  IF ~IsSome(b.cfg_parent) THEN EndWalk(r)
                      ELSE [r EXCEPT !.current_name = Unwrap(b.cfg_parent)]
    /\ UNCHANGED <<source, project, call, pre, ncalls, env, merge, parked, cond, rsvars>>

\* The locals after one iteration with outcome r: the `?` on a condition that
\* does not parse returns the error; otherwise the loop goes on.  The
\* history keeps, per evaluated group, whether it applied and the map and
\* accumulator it was evaluated against.
AfterGroup(locals, r) ==
    LET h == Append(locals.hist, [applied |-> r.matches, vars |-> locals.vars,
                                   result |-> locals.result])
    IN  IF ~r.ok
        THEN [locals EXCEPT !.pc = "done", !.ret = "err", !.err = r.err,
                            !.hist = h]
        ELSE [locals EXCEPT !.vars = r.vars, !.result = r.result,
                            !.idx = locals.idx + 1, !.hist = h]

\* Mutant: the group is expanded in place, not in a copy.
GroupStep_InPlace ==
    /\ run.pc = "groups"
    /\ run.idx <= Len(project.property_groups)
    /\ run' = AfterGroup(run, evaluate_group(project.property_groups[run.idx],
                                             run.vars, run.build_vars, run.result))
    /\ project' = [project EXCEPT !.property_groups[run.idx] =
                       expand_vars(project.property_groups[run.idx], run.vars)]
    /\ UNCHANGED <<source, call, pre, ncalls, env, merge, parked, cond, rsvars>>

\* One iteration of the loop over property_groups.
GroupStep ==
    /\ run.pc = "groups"
    /\ run.idx <= Len(project.property_groups)
    /\ run' = AfterGroup(run, evaluate_group(project.property_groups[run.idx],
                                             run.vars, run.build_vars, run.result))
    /\ UNCHANGED <<source, project, call, pre, ncalls, env, merge, parked, cond, rsvars>>

\* Ok(result)
Finish ==
    /\ run.pc = "groups"
    /\ run.idx > Len(project.property_groups)
    /\ run' = [run EXCEPT !.pc = "done", !.ret = "ok"]
    /\ UNCHANGED <<source, project, call, pre, ncalls, env, merge, parked, cond, rsvars>>

\* The caller takes the result; the locals are dropped.
Return ==
    /\ run.pc = "done"
    /\ run' = Idle
    /\ UNCHANGED <<source, project, call, pre, ncalls, env, merge, parked, cond, rsvars>>

NextResolve ==
    \/ \E c \in ConfigNames, p \in PlatformNames : ResolveFor(c, p)
    \/ ActivePropertyGroup
    \/ WalkStep
    \/ GroupStep
    \/ Finish
    \/ Return

SpecResolve == InitResolve /\ [][NextResolve]_vars

(***************************************************************************)
(* Properties of the resolver                                              *)
(***************************************************************************)
\* The fields of a group by tag name.
TagValues(pg) == collect_into_vars(pg, EmptyMap)

\* The groups evaluated so far that applied.
AppliedGroups == {k \in 1..Len(run.hist) : run.hist[k].applied}

\* The expanded values given by group k, by tag name.
GivenBy(k) == TagValues(expand_vars(project.property_groups[k], run.hist[k].vars))

Setters(t) == {k \in AppliedGroups : t \in DOMAIN GivenBy(k)}
LastSetter(t) == CHOOSE k \in Setters(t) : \A j \in Setters(t) : j <= k

\* C7: at every point of the pass of active_property_group_for, each field of
\* the accumulator holds the expanded value given by the last applied group,
\* among those evaluated so far, that sets it; a field that no applied group
\* sets is absent.
C7_AccumulatorHoldsLastApplied ==
    run.pc \in {"groups", "done"} =>
        /\ DOMAIN TagValues(run.result) = UNION {DOMAIN GivenBy(k) : k \in AppliedGroups}
        /\ \A t \in DOMAIN TagValues(run.result) :
              TagValues(run.result)[t] = GivenBy(LastSetter(t))[t]

\* A pass in which a field was set by two applied groups, a group did not
\* apply, and a field set only by the first group is still held.
C7_Witness ==
    /\ run.pc = "groups"
    /\ \E t \in DOMAIN TagValues(run.result) : Cardinality(Setters(t)) >= 2
    /\ \E k \in 1..Len(run.hist) : ~run.hist[k].applied
    /\ \E t \in DOMAIN TagValues(run.result) : Setters(t) = {1}

\* The accumulator once group k has been merged.
ResultAfter(k) == IF k = Len(run.hist) THEN run.result ELSE run.hist[k + 1].result

\* What a group sees when group k is evaluated: the fields of the accumulator
\* by tag name, under the build variables.
VisibleAt(k) == merge_map(TagValues(run.hist[k].result), run.build_vars)

\* C9 as stated: once groups have applied, $(T) stands for the accumulator's
\* current value of tag T, for every tag T the accumulator holds.
C9_AccumulatorVisible ==
    run.pc = "groups" =>
        \A t \in DOMAIN TagValues(run.result) :
            Lookup(run.vars, t) = TagValues(run.result)[t]

\* C9, amended: between groups the variable map is the accumulator's fields
\* by tag name with the build variables laid over them, so $(T) stands for
\* the accumulator's current value of T unless T names a build variable (then
\* for that variable's value) and for nothing when neither holds T; and each
\* applied group's values are its raw values expanded against that map.
C9_AccumulatorVisibleUnderBuildVars ==
    /\ run.pc = "groups" =>
          run.vars = merge_map(TagValues(run.result), run.build_vars)
    /\ run.pc \in {"groups", "done"} =>
          \A k \in AppliedGroups :
             \A t \in DOMAIN TagValues(project.property_groups[k]) :
                TagValues(ResultAfter(k))[t] =
                    expand_value(TagValues(project.property_groups[k])[t], VisibleAt(k))

\* "A;$(DCC_Define)" then "B;$(DCC_Define)" have accumulated, while the
\* accumulator holds a Platform that is not the requested one.
C9_Witness ==
    /\ run.pc = "groups"
    /\ run.result.dcc_options.define = Some(<<"B", ";", "A", ";">>)
    /\ run.result.project_properties.platform = Some(P_Win32)
    /\ run.platform = P_Win64

\* C10: when no BuildConfiguration is named config, whatever the groups
\* hold, active_property_group_for(config, platform) returns the
\* "configuration not found" error, having evaluated no group and built no
\* result.
C10_ConfigurationNotFound ==
    (/\ run.pc # "idle"
     /\ run.err \notin {NoDefaultConfig, NoDefaultPlatform}
     /\ \A i \in 1..Len(project.item_groups) :
           \A j \in 1..Len(project.item_groups[i].build_configurations) :
              project.item_groups[i].build_configurations[j].name # run.config)
    => /\ run.pc = "done"
       /\ run.ret = "err"
       /\ run.err = ConfigNotFound(run.config)
       /\ run.hist = <<>>
       /\ run.result = PropertyGroupDefault

\* The error returned for a project that has groups and configurations.
C10_Witness ==
    /\ run.pc = "done"
    /\ run.err = ConfigNotFound(N_Missing)
    /\ Len(project.property_groups) >= 3
    /\ build_configs(project) # <<>>

\* Two calls on the same handle: the one not running is parked, and they may
\* take turns at any point.
Switch ==
    /\ run' = parked
    /\ parked' = run
    /\ UNCHANGED <<source, project, call, pre, ncalls, env, merge, cond, rsvars>>

NextShared == NextResolve \/ Switch

SpecShared == InitResolve /\ [][NextShared]_vars

\* What a finished call hands back: Ok(result) or the error.
Returned(locals) ==
    [ret |-> locals.ret, err |-> locals.err,
     result |-> IF locals.ret = "ok" THEN locals.result ELSE PropertyGroupDefault]

\* C12: the resolver never changes the document it resolves: the source, the
\* typed project and the environment stay as they were, whether calls
\* succeed or fail, and what a call returns is a function of the document
\* and its (config, platform) alone, whatever other call ran before it or
\* takes turns with it.
C12_ResolverLeavesDocumentAlone ==
    /\ source = pre.source
    /\ project = pre.project
    /\ env = pre.env
    /\ \A locals \in {run, parked} :
          (locals.pc = "done" /\ locals.err \notin {NoDefaultConfig, NoDefaultPlatform})
          => Returned(locals) =
                active_property_group_for(env, project, locals.config, locals.platform)

\* Two calls for different configurations of one document, both finished,
\* one with a result built from expanded values and one with an error.
C12_Witness ==
    /\ run.pc = "done"
    /\ parked.pc = "done"
    /\ run.config # parked.config
    /\ run.ret = "ok"
    /\ run.result.dcc_options.define = Some(<<"B", ";", "A", ";">>)
    /\ parked.ret = "err"

\* The resolver as the code runs it: the loop of resolve_build_variables is
\* sequential code of one call, so an iteration that can run does run.
SpecResolveLive == InitResolve /\ [][NextResolve]_vars /\ WF_vars(WalkStep)

NoRepeat(names) ==
    \A i, j \in 1..Len(names) : names[i] = names[j] => i = j

\* C11: the inheritance walk ends for every list of BuildConfiguration
\* nodes, with parent cycles and self-parents: no name is processed twice,
\* and a walk once begun reaches the group pass with the map built and no
\* error.
C11_WalkTerminates ==
    /\ [](NoRepeat(run.visited))
    /\ [](run.pc \in {"walk", "groups"} => (run.ret = "none" /\ run.err = NoError))
    /\ (run.pc = "walk") ~> (run.pc = "groups")

\* A walk ended by a cycle of two names (the parent of the second is the
\* first), and one ended by a node that is its own parent.
C11_Witness ==
    /\ run.pc = "groups"
    /\ run.hist = <<>>
    /\ \/ /\ Len(run.visited) = 2
          /\ run.current_name = run.visited[1]
          /\ run.visited[1] # run.visited[2]
       \/ /\ run.visited = <<N_Base>>
          /\ run.current_name = N_Base
          /\ find_config(build_configs(project), N_Base) # None
          /\ Unwrap(find_config(build_configs(project), N_Base)).cfg_parent = Some(N_Base)

\* The text of parts with each reference replaced by what the map holds for
\* its name, and by nothing when the map does not hold the name.
Resolved(parts, vs) ==
    Flatten([i \in 1..Len(parts) |->
               IF parts[i].t = "Literal" THEN parts[i].s
               ELSE IF parts[i].s \in DOMAIN vs THEN vs[parts[i].s] ELSE <<>>])

\* The text has a "$" or a "(".
HasMark(s) == \E i \in 1..Len(s) : s[i] \in {"$", "("}

\* The text without its references (each from "$(" to the next ")" or to
\* the end).
RECURSIVE Unreferenced(_)
Unreferenced(s) ==
    IF s = <<>> THEN <<>>
    ELSE IF AtVarRef(s) THEN Unreferenced(TakeName(Drop(s, 2)).rest)
    ELSE <<s[1]>> \o Unreferenced(Tail(s))

\* Outside the references written in the groups, nothing the pass works
\* with has a "$" or a "(": neither the text of a field, nor a value of the
\* environment, nor the configuration, the platform or the project name.
MarksOnlyInReferences ==
    /\ \A k \in 1..Len(project.property_groups) :
          \A t \in DOMAIN TagValues(project.property_groups[k]) :
             ~HasMark(Unreferenced(TagValues(project.property_groups[k])[t]))
    /\ \A n \in DOMAIN env : ~HasMark(env[n])
    /\ ~HasMark(run.config)
    /\ ~HasMark(run.platform)
    /\ IsSome(project_stem(project)) => ~HasMark(Unwrap(project_stem(project)))

\* A call has returned a group.
ReturnedGroup == run.pc = "done" /\ run.ret = "ok"

\* C15 as stated: no field of the group returned holds a "$(".
C15_NoReferenceLeft ==
    ReturnedGroup =>
       \A t \in DOMAIN TagValues(run.result) : ~ContainsVarRef(TagValues(run.result)[t])

\* C15, amended: every reference written in a field of an applied group has
\* been replaced, in one pass over the field, by the value the map held for
\* its name or by nothing, and what was put in is not read again: the field
\* is its text with each reference replaced.  When "$" and "(" occur in the
\* input only in the references of the groups, no field of the group
\* returned holds a "$(".
C15_ReferencesReplacedInOnePass ==
    ReturnedGroup =>
       /\ \A k \in AppliedGroups :
             \A t \in DOMAIN TagValues(project.property_groups[k]) :
                TagValues(ResultAfter(k))[t] =
                   Resolved(parse_string_parts(TagValues(project.property_groups[k])[t]),
                            run.hist[k].vars)
       /\ MarksOnlyInReferences =>
             \A t \in DOMAIN TagValues(run.result) :
                ~ContainsVarRef(TagValues(run.result)[t])

\* A group returned whose fields referred to themselves, to each other and
\* to a name nothing defines, no "$(" left in any.
C15_Witness ==
    /\ ReturnedGroup
    /\ MarksOnlyInReferences
    /\ run.result.dcc_options.define = Some(<<"A", ";">>)
    /\ S_MyTag \in DOMAIN run.result.other
    /\ run.result.other[S_MyTag] = <<"A", ";">>
    /\ \E k \in AppliedGroups :
          /\ S_MyTag \in DOMAIN TagValues(project.property_groups[k])
          /\ ContainsVarRef(TagValues(project.property_groups[k])[S_MyTag])

\* The groups without a condition, and what they give as defaults.
Unconditional ==
    {i \in 1..Len(project.property_groups) : project.property_groups[i].condition = None}
ConfigOf(i) ==
    IF project.property_groups[i].project_properties.config # None
    THEN project.property_groups[i].project_properties.config
    ELSE project.property_groups[i].project_properties.configuration
PlatformOf(i) == project.property_groups[i].project_properties.platform
WithConfig == {i \in Unconditional : ConfigOf(i) # None}
WithPlatform == {i \in Unconditional : PlatformOf(i) # None}
Least(S) == CHOOSE x \in S : \A y \in S : x <= y

\* A call of active_property_group has returned.
ByDefaults == run.pc = "done" /\ run.entry = "defaults"

\* C14 as stated: active_property_group reads the defaults from the first
\* unconditional group, fails when that group lacks the configuration or
\* the platform, and otherwise returns what active_property_group_for
\* returns for them.
C14_DefaultsOfFirstUnconditionalGroup ==
    ByDefaults =>
       IF \/ Unconditional = {}
          \/ ConfigOf(Least(Unconditional)) = None
          \/ PlatformOf(Least(Unconditional)) = None
       THEN run.ret = "err" /\ run.err \in {NoDefaultConfig, NoDefaultPlatform}
       ELSE Returned(run) =
               active_property_group_for(env, project,
                                         Unwrap(ConfigOf(Least(Unconditional))),
                                         Unwrap(PlatformOf(Least(Unconditional))))

\* C14, amended: active_property_group reads the default configuration from
\* the first unconditional group that has a Config or Configuration (Config
\* before Configuration) and the default platform from the first
\* unconditional group that has a Platform, fails when no unconditional
\* group has one of them, and otherwise returns what
\* active_property_group_for returns for them.
C14_DefaultsOfFirstGroupsHavingThem ==
    ByDefaults =>
       IF WithConfig = {} THEN run.ret = "err" /\ run.err = NoDefaultConfig
       ELSE IF WithPlatform = {} THEN run.ret = "err" /\ run.err = NoDefaultPlatform
       ELSE /\ run.config = Unwrap(ConfigOf(Least(WithConfig)))
            /\ run.platform = Unwrap(PlatformOf(Least(WithPlatform)))
            /\ Returned(run) =
                  active_property_group_for(env, project, run.config, run.platform)

\* The defaults come from two groups, neither of them the first.
C14_Witness ==
    /\ ByDefaults
    /\ WithConfig # {}
    /\ WithPlatform # {}
    /\ Least(WithConfig) = 2
    /\ Least(WithPlatform) = 4
    /\ run.ret = "ok"
    /\ run.config = N_Debug
    /\ run.platform = P_Win32

(***************************************************************************)
(* PropertyGroup::merge_from on its own                                    *)
(***************************************************************************)
MaxMerges == 2

OptionValues == {None, Some(<<"a">>), Some(<<"b">>)}

\* A define and the two catch-all maps, present or absent.
Shapes ==
    {[define |-> None, warning_directives |-> EmptyMap, other |-> EmptyMap],
     [define |-> Some(<<"a">>), warning_directives |-> EmptyMap, other |-> EmptyMap],
     [define |-> Some(<<"a">>),
      warning_directives |-> Insert(EmptyMap, S_DCC_W, <<"a">>), other |-> EmptyMap],
     [define |-> None, warning_directives |-> EmptyMap,
      other |-> Insert(EmptyMap, S_MyTag, <<"b">>)]}

\* Groups with a typed field of each struct and an entry of each catch-all
\* map present or absent; those with a define are conditional.
MergeGroups ==
    {[PropertyGroupDefault EXCEPT
         !.condition = IF IsSome(sh.define) THEN Some(<<"c">>) ELSE None,
         !.project_properties.project_version = pv,
         !.dcc_options.define = sh.define,
         !.dcc_options.warning_directives = sh.warning_directives,
         !.other = sh.other] :
       pv \in OptionValues, sh \in Shapes}

InitMerge ==
    /\ source = DocPlain
    /\ project = Dproj_parse(source).project
    /\ call = NoCall
    /\ pre = [source |-> source, project |-> project]
    /\ ncalls = 0
    /\ env = EmptyMap
    /\ run = Idle
    /\ parked = Idle
    /\ cond = NoCondition
    /\ rsvars = NoRsvars
    /\ \E g \in MergeGroups : merge = [init |-> g, acc |-> g, seq |-> <<>>]

\* self.merge_from(&other)
MergeFrom(other) ==
    /\ Len(merge.seq) < MaxMerges
    /\ merge' = [merge EXCEPT !.acc = merge_from(merge.acc, other),
                              !.seq = Append(merge.seq, other)]
    /\ UNCHANGED <<source, project, call, pre, ncalls, env, run, parked, cond, rsvars>>

NextMerge == \E other \in MergeGroups : MergeFrom(other)

SpecMerge == InitMerge /\ [][NextMerge]_vars

\* The accumulator as it started, then the groups merged into it, in order.
MergeChain == <<merge.init>> \o merge.seq
Holders(t) == {k \in 1..Len(MergeChain) : t \in DOMAIN TagValues(MergeChain[k])}
LastHolder(t) == CHOOSE k \in Holders(t) : \A j \in Holders(t) : j <= k

\* C8: merge_from overwrites a field exactly when the other group has it and
\* leaves it alone otherwise (for the maps, key by key), so after any
\* sequence of merges each field holds the value of the last merge in which
\* it was present, or its first value when it was in none; and merging the
\* group merged last once more changes nothing.
C8_MergeLastPresentWins ==
    /\ DOMAIN TagValues(merge.acc) =
          UNION {DOMAIN TagValues(MergeChain[k]) : k \in 1..Len(MergeChain)}
    /\ \A t \in DOMAIN TagValues(merge.acc) :
          TagValues(merge.acc)[t] = TagValues(MergeChain[LastHolder(t)])[t]
    /\ merge.acc.condition = merge.init.condition
    /\ merge.seq # <<>> =>
          merge_from(merge.acc, merge.seq[Len(merge.seq)]) = merge.acc

\* Two merges after which one field still holds what the first merge gave
\* it, the second merge lacking it, and another holds what the second gave.
C8_Witness ==
    /\ Len(merge.seq) = 2
    /\ merge.init.dcc_options.define = None
    /\ merge.seq[1].dcc_options.define = Some(<<"a">>)
    /\ merge.seq[2].dcc_options.define = None
    /\ merge.acc.dcc_options.define = Some(<<"a">>)
    /\ merge.init.project_properties.project_version = Some(<<"a">>)
    /\ merge.seq[2].project_properties.project_version = Some(<<"b">>)
    /\ merge.acc.project_properties.project_version = Some(<<"b">>)
    /\ S_DCC_W \in DOMAIN merge.seq[1].dcc_options.warning_directives
    /\ S_MyTag \in DOMAIN merge.seq[2].other


(***************************************************************************)
(* parse_condition, evaluate and the two expansions on their own           *)
(***************************************************************************)
MaxAtoms == 3

\* An atom of a condition as it is written: a comparison of two quoted
\* operands, or Exists of one.
Cmp(l, op, r) == [k |-> "cmp", l |-> l, op |-> op, r |-> r]
Ex(p) == [k |-> "exists", l |-> p, op |-> "Equal", r |-> <<>>]

A_Same == Cmp(<<"a">>, "Equal", <<"a">>)
A_BaseSet == Cmp(<<"$", "(", "B", ")">>, "NotEqual", <<>>)
A_Exists == Ex(<<"p">>)

\* The atoms that conditions of several atoms are built from.
ChainAtoms == {A_Same, A_BaseSet, A_Exists}

\* The atoms of one-atom conditions: also operands that differ in letter
\* case only, that are equal as numbers only, that mix text and references,
\* that hold whitespace, and a reference that is never closed.
Atoms ==
    ChainAtoms \cup
    {Cmp(<<"a">>, "Equal", <<"A">>),
     Cmp(<<"a">>, "NotEqual", <<"A">>),
     Cmp(<<"1">>, "Equal", <<"0", "1">>),
     Cmp(<<"x", "$", "(", "B", ")", "$", "(", "U", ")">>, "Equal", <<"x", "a">>),
     Cmp(<<" ", "a">>, "Equal", <<"a", " ">>),
     Cmp(<<" ", "a">>, "NotEqual", <<" ", "a">>),
     Cmp(<<"$", "(", "B">>, "Equal", <<"a">>),
     Ex(<<"$", "(", "B", ")">>),
     Ex(<<>>)}

\* Whitespace put at every token boundary and at both ends, and the letter
\* case of the words.
Layouts ==
    {[pad |-> <<>>, kw |-> "lower"],
     [pad |-> <<" ">>, kw |-> "lower"],
     [pad |-> <<"\t", " ">>, kw |-> "upper"],
     [pad |-> <<"\n">>, kw |-> "title"]}

VarMaps == {EmptyMap, Insert(EmptyMap, <<"B">>, <<"a">>)}

Flaws == {"trailing", "noquote", "noparen", "unquoted", "empty"}

UpperOf(c) == UpperCase[CHOOSE j \in 1..26 : LowerCase[j] = c]

Word(w, style) ==
    CASE style = "lower" -> w
      [] style = "upper" -> [i \in 1..Len(w) |-> UpperOf(w[i])]
      [] style = "title" -> [i \in 1..Len(w) |-> IF i = 1 THEN UpperOf(w[i]) ELSE w[i]]

QuotedText(text) == <<"'">> \o text \o <<"'">>
OpText(op) == IF op = "Equal" THEN <<"=", "=">> ELSE <<"!", "=">>
KeywordText(kw) == IF kw = "and" THEN <<"a", "n", "d">> ELSE <<"o", "r">>

\* The tokens of an atom.
AtomTokens(a, style) ==
    IF a.k = "cmp" THEN <<QuotedText(a.l), OpText(a.op), QuotedText(a.r)>>
    ELSE <<Word(<<"e", "x", "i", "s", "t", "s">>, style), <<"(">>, QuotedText(a.l), <<")">>>>

\* The tokens of atoms joined by the keywords kws, atoms group[1]..group[2]
\* in parentheses when there is a group.
ChainTokens(atoms, kws, group, style) ==
    Flatten([i \in 1..Len(atoms) |->
        (IF i > 1 THEN <<Word(KeywordText(kws[i - 1]), style)>> ELSE <<>>)
        \o (IF group # <<>> /\ group[1] = i THEN <<<<"(">>>> ELSE <<>>)
        \o AtomTokens(atoms[i], style)
        \o (IF group # <<>> /\ group[2] = i THEN <<<<")">>>> ELSE <<>>)])

IsQuotedToken(t) == t # <<>> /\ t[1] = "'"

\* The tokens damaged in one way.
Damage(tokens, flaw) ==
    CASE flaw = "none" -> tokens
      [] flaw = "trailing" -> Append(tokens, QuotedText(<<"x">>))
      [] flaw = "noparen" -> <<<<"(">>>> \o tokens
      [] flaw = "empty" -> <<>>
      [] flaw = "noquote" ->
           LET n == CHOOSE i \in 1..Len(tokens) :
                       /\ IsQuotedToken(tokens[i])
                       /\ \A j \in (i + 1)..Len(tokens) : ~IsQuotedToken(tokens[j])
           IN  [tokens EXCEPT ![n] = SubSeq(@, 1, Len(@) - 1)]
      [] flaw = "unquoted" ->
           LET n == CHOOSE i \in 1..Len(tokens) :
                       /\ IsQuotedToken(tokens[i])
                       /\ \A j \in 1..(i - 1) : ~IsQuotedToken(tokens[j])
           IN  [tokens EXCEPT ![n] = SubSeq(@, 2, Len(@) - 1)]

\* The text of the tokens with the padding before, between and after them.
Render(tokens, pad) ==
    pad \o Flatten([i \in 1..Len(tokens) |-> tokens[i] \o pad])

ConditionText(atoms, kws, group, flaw, layout) ==
    Render(Damage(ChainTokens(atoms, kws, group, layout.kw), flaw), layout.pad)

\* Conditions of n atoms: the atoms, the keywords between them and the
\* parentheses.
Chains(n) ==
    {[atoms |-> a, kws |-> k, group |-> g] :
       a \in [1..n -> IF n = 1 THEN Atoms ELSE ChainAtoms],
       k \in [1..(n - 1) -> {"and", "or"}],
       g \in {<<>>} \cup {<<i, j>> : i \in 1..n, j \in 1..n}}

WellFormed(c) == c.group = <<>> \/ c.group[1] < c.group[2] \/ Len(c.atoms) = 1

Conditions == {c \in UNION {Chains(n) : n \in 1..MaxAtoms} : WellFormed(c)}

InitCondition ==
    /\ source = DocPlain
    /\ project = Dproj_parse(source).project
    /\ call = NoCall
    /\ pre = [source |-> source, project |-> project]
    /\ ncalls = 0
    /\ env = EmptyMap
    /\ run = Idle
    /\ parked = Idle
    /\ merge = NoMerge
    /\ rsvars = NoRsvars
    /\ \E c \in Conditions, layout \in Layouts, vs \in VarMaps, flaw \in Flaws \cup {"none"} :
          /\ flaw # "none" => (Len(c.atoms) <= 2 /\ c.group = <<>> /\ vs = EmptyMap)
          /\ cond = [NoCondition EXCEPT
                        !.pc = "start", !.atoms = c.atoms, !.kws = c.kws,
                        !.group = c.group, !.flaw = flaw, !.layout = layout,
                        !.input = ConditionText(c.atoms, c.kws, c.group, flaw, layout),
                        !.vars = vs]

\* condition::parse_condition(cond)
ParseCondition ==
    /\ cond.pc = "start"
    /\ cond' = [cond EXCEPT !.pc = "parsed", !.parsed = parse_condition(cond.input)]
    /\ UNCHANGED <<source, project, call, pre, ncalls, env, run, merge, parked, rsvars>>

\* condition::evaluate(&expr, &vars)
Evaluate ==
    /\ cond.pc = "parsed"
    /\ cond.parsed.ok
    /\ cond' = [cond EXCEPT !.pc = "evaluated",
                            !.value = evaluate(cond.parsed.expr, cond.vars)]
    /\ UNCHANGED <<source, project, call, pre, ncalls, env, run, merge, parked, rsvars>>

\* The operands as they are written.
OperandTexts(atoms) ==
    {atoms[i].l : i \in 1..Len(atoms)} \cup
    {atoms[i].r : i \in {j \in 1..Len(atoms) : atoms[j].k = "cmp"}}

\* expand_msbuild_vars(raw, vars), on a property value with the text of an
\* operand of a one-atom condition.
ExpandValue(raw) ==
    /\ cond.pc = "start"
    /\ cond.flaw = "none"
    /\ Len(cond.atoms) = 1
    /\ cond' = [cond EXCEPT !.pc = "expanded", !.raw = raw,
                            !.text = expand_msbuild_vars(raw, cond.vars)]
    /\ UNCHANGED <<source, project, call, pre, ncalls, env, run, merge, parked, rsvars>>

NextCondition ==
    \/ ParseCondition
    \/ Evaluate
    \/ \E raw \in OperandTexts(cond.atoms) : ExpandValue(raw)

SpecCondition == InitCondition /\ [][NextCondition]_vars


(***************************************************************************)
(* Properties of the condition grammar and evaluator                       *)
(***************************************************************************)
\* The expression an atom stands for.
AtomAst(a) ==
    IF a.k = "cmp" THEN Compare(parse_string_parts(a.l), a.op, parse_string_parts(a.r))
    ELSE Exists(parse_string_parts(a.l))

\* The tree of a chain of expressions joined by keywords when "and" binds
\* tighter than "or" and both associate to the left: the chain splits at
\* its last "or", and a run of "and" at its last "and".
RECURSIVE TreeOf(_, _)
TreeOf(asts, kws) ==
    IF Len(asts) = 1 THEN asts[1]
    ELSE LET n == Len(kws)
             ors == {i \in 1..n : kws[i] = "or"}
             m == IF ors # {} THEN CHOOSE i \in ors : \A j \in ors : j <= i ELSE n
             left == TreeOf(SubSeq(asts, 1, m), SubSeq(kws, 1, m - 1))
             right == TreeOf(SubSeq(asts, m + 1, n + 1), SubSeq(kws, m + 1, n))
         IN  IF ors # {} THEN Or(left, right) ELSE And(left, right)

\* The tree of a written condition: a parenthesized group counts as one
\* operand of the chain around it.
ExpectedTree(atoms, kws, group) ==
    LET asts == [i \in 1..Len(atoms) |-> AtomAst(atoms[i])]
    IN  IF group = <<>> THEN TreeOf(asts, kws)
        ELSE TreeOf(SubSeq(asts, 1, group[1] - 1)
                      \o <<TreeOf(SubSeq(asts, group[1], group[2]),
                                  SubSeq(kws, group[1], group[2] - 1))>>
                      \o SubSeq(asts, group[2] + 1, Len(asts)),
                    SubSeq(kws, 1, group[1] - 1) \o SubSeq(kws, group[2], Len(kws)))

\* A keyword written right before the word Exists, nothing between them.
WordsJoined ==
    /\ cond.layout.pad = <<>>
    /\ \E i \in 2..Len(cond.atoms) :
          cond.atoms[i].k = "exists" /\ (cond.group = <<>> \/ cond.group[1] # i)

\* The literal text of parts, the references left out.
LiteralText(parts) ==
    Flatten([i \in 1..Len(parts) |-> IF parts[i].t = "Literal" THEN parts[i].s ELSE <<>>])

\* A condition of one comparison has been evaluated.
OneComparison ==
    cond.pc = "evaluated" /\ Len(cond.atoms) = 1 /\ cond.atoms[1].k = "cmp"

\* C13: a reference to a variable the map does not hold expands to the empty
\* string, in a property value and in the operands of a condition alike, and
\* the expansion goes through (it has no error to give); with an empty map
\* only the literal text is left of a value and of an operand, so that
\* '$(B)'!='' is false when B is not defined.
C13_AbsentVariableExpandsToEmpty ==
    /\ cond.pc = "expanded" =>
          /\ cond.text = Resolved(parse_string_parts(cond.raw), cond.vars)
          /\ cond.vars = EmptyMap => cond.text = LiteralText(parse_string_parts(cond.raw))
    /\ (OneComparison /\ cond.vars = EmptyMap) =>
          cond.value =
             ((LiteralText(parse_string_parts(cond.atoms[1].l))
                 = LiteralText(parse_string_parts(cond.atoms[1].r)))
              <=> cond.atoms[1].op = "Equal")
    /\ (OneComparison /\ cond.atoms[1] = A_BaseSet /\ <<"B">> \notin DOMAIN cond.vars) =>
          cond.value = FALSE

\* '$(B)'!='' evaluated under the empty map.
C13_Witness ==
    /\ OneComparison
    /\ cond.atoms[1] = A_BaseSet
    /\ cond.vars = EmptyMap
    /\ cond.value = FALSE

\* C16: Exists evaluates to true whatever its operand (a path, a reference
\* to a variable that is or is not defined, nothing at all) and whatever the
\* map; nothing outside the expression is consulted.
C16_ExistsIsAlwaysTrue ==
    (cond.pc = "evaluated" /\ \A i \in 1..Len(cond.atoms) : cond.atoms[i].k = "exists")
       => cond.value = TRUE

\* Exists of a reference that expands to nothing, under the empty map.
C16_Witness ==
    /\ cond.pc = "evaluated"
    /\ cond.parsed.expr = Exists(<<Variable(<<"B">>)>>)
    /\ cond.vars = EmptyMap
    /\ cond.value = TRUE

\* The comparison with the other operator.
Flipped(expr) ==
    [expr EXCEPT !.op = IF @ = "Equal" THEN "NotEqual" ELSE "Equal"]

\* C17: a comparison expands the fragments of each operand against the map,
\* joins them in the order written and compares the two texts character by
\* character: Equal is true exactly when the texts are the same (letter case
\* counts, and so do digits that would be equal as numbers), and NotEqual is
\* the negation of Equal on the same operands and map.
C17_CompareIsTextEquality ==
    OneComparison =>
       /\ cond.value =
             ((expand_msbuild_vars(cond.atoms[1].l, cond.vars)
                 = expand_msbuild_vars(cond.atoms[1].r, cond.vars))
              <=> cond.atoms[1].op = "Equal")
       /\ evaluate(Flipped(cond.parsed.expr), cond.vars) = ~cond.value
       /\ cond.atoms[1] = Cmp(<<"a">>, "Equal", <<"A">>) => cond.value = FALSE
       /\ cond.atoms[1] = Cmp(<<"1">>, "Equal", <<"0", "1">>) => cond.value = FALSE

\* An operand of a literal and two references, one defined and one not,
\* equal to the text it expands to.
C17_Witness ==
    /\ OneComparison
    /\ cond.atoms[1].l = <<"x", "$", "(", "B", ")", "$", "(", "U", ")">>
    /\ <<"B">> \in DOMAIN cond.vars
    /\ cond.value = TRUE

\* A sound condition whose words are apart has been parsed.
ParsedSound == cond.pc = "parsed" /\ cond.flaw = "none" /\ ~WordsJoined

\* C18: "and" binds tighter than "or" and both associate to the left, so
\* A or B and C is Or(A, And(B, C)), A and B or C is Or(And(A, B), C),
\* A or B or C is Or(Or(A, B), C) and A and B and C is And(And(A, B), C);
\* a parenthesized group is one operand of what is around it, whatever the
\* keywords inside and outside.
C18_AndBindsTighterThanOr ==
    ParsedSound =>
       /\ cond.parsed.ok
       /\ cond.parsed.expr = ExpectedTree(cond.atoms, cond.kws, cond.group)
       /\ Len(cond.atoms) = 3 =>
             LET A == AtomAst(cond.atoms[1])
                 B == AtomAst(cond.atoms[2])
                 C == AtomAst(cond.atoms[3])
             IN  /\ (cond.group = <<>> /\ cond.kws = <<"or", "and">>) =>
                       cond.parsed.expr = Or(A, And(B, C))
                 /\ (cond.group = <<>> /\ cond.kws = <<"and", "or">>) =>
                       cond.parsed.expr = Or(And(A, B), C)
                 /\ (cond.group = <<>> /\ cond.kws = <<"or", "or">>) =>
                       cond.parsed.expr = Or(Or(A, B), C)
                 /\ (cond.group = <<>> /\ cond.kws = <<"and", "and">>) =>
                       cond.parsed.expr = And(And(A, B), C)
                 /\ (cond.group = <<1, 2>> /\ cond.kws = <<"or", "and">>) =>
                       cond.parsed.expr = And(Or(A, B), C)
                 /\ (cond.group = <<2, 3>> /\ cond.kws = <<"and", "or">>) =>
                       cond.parsed.expr = And(A, Or(B, C))
                 /\ (cond.group = <<2, 3>> /\ cond.kws = <<"or", "or">>) =>
                       cond.parsed.expr = Or(A, Or(B, C))

\* A or B and C with three different atoms, parsed.
C18_Witness ==
    /\ ParsedSound
    /\ cond.atoms = <<A_Same, A_BaseSet, A_Exists>>
    /\ cond.kws = <<"or", "and">>
    /\ cond.group = <<>>
    /\ cond.parsed.expr = Or(AtomAst(A_Same), And(AtomAst(A_BaseSet), AtomAst(A_Exists)))

\* One space at every boundary, the words in lower case.
PlainLayout == [pad |-> <<" ">>, kw |-> "lower"]

\* What the same condition gives when written plainly.
PlainParse ==
    parse_condition(ConditionText(cond.atoms, cond.kws, cond.group, "none", PlainLayout))

SameAsPlain ==
    /\ cond.parsed.ok = PlainParse.ok
    /\ cond.parsed.expr = PlainParse.expr

\* C19 as stated: the outcome of parse_condition is the same for every
\* letter case of the words and every whitespace, none included, around
\* operators, parentheses and keywords.
C19_LayoutIndependent ==
    (cond.pc = "parsed" /\ cond.flaw = "none") => SameAsPlain

\* C19, amended: the outcome of parse_condition is the same for every letter
\* case of the words and every whitespace around operators, parentheses and
\* keywords, at both ends of the text too, as long as a keyword and the word
\* Exists after it are kept apart; whitespace inside a quoted operand stays
\* in the operand.
C19_LayoutIndependentWordsApart ==
    ParsedSound =>
       /\ SameAsPlain
       /\ cond.parsed.ok
       /\ cond.atoms = <<Cmp(<<" ", "a">>, "Equal", <<"a", " ">>)>> =>
             cond.parsed.expr =
                Compare(<<Literal(<<" ", "a">>)>>, "Equal", <<Literal(<<"a", " ">>)>>)

\* Upper-case words, tabs and spaces everywhere, a group, three atoms.
C19_Witness ==
    /\ ParsedSound
    /\ cond.layout = [pad |-> <<"\t", " ">>, kw |-> "upper"]
    /\ cond.atoms = <<A_Exists, A_Same, A_Exists>>
    /\ cond.kws = <<"and", "or">>
    /\ cond.group = <<2, 3>>
    /\ cond.parsed.ok

\* The operands of an expression, left to right.
RECURSIVE Operands(_)
Operands(expr) ==
    CASE expr.t = "Compare" -> <<expr.lhs, expr.rhs>>
      [] expr.t = "Exists" -> <<expr.parts>>
      [] OTHER -> Operands(expr.a) \o Operands(expr.b)

\* The operators of an expression.
RECURSIVE Operators(_)
Operators(expr) ==
    CASE expr.t \in {"Compare", "Exists"} -> 0
      [] OTHER -> 1 + Operators(expr.a) + Operators(expr.b)

\* The operands as written, left to right.
WrittenOperands ==
    Flatten([i \in 1..Len(cond.atoms) |->
               IF cond.atoms[i].k = "cmp"
               THEN <<parse_string_parts(cond.atoms[i].l), parse_string_parts(cond.atoms[i].r)>>
               ELSE <<parse_string_parts(cond.atoms[i].l)>>])

\* C20: parse_condition gives an expression that holds every operand and
\* every keyword of the text, or an error that carries the text and no
\* expression; a text with something after a complete expression, with a
\* quote or a parenthesis left open, with an operand not quoted, or with
\* nothing in it gives the error.
C20_WholeInputOrError ==
    cond.pc = "parsed" =>
       /\ cond.parsed.ok =>
             /\ cond.flaw = "none"
             /\ Operands(cond.parsed.expr) = WrittenOperands
             /\ Operators(cond.parsed.expr) = Len(cond.kws)
       /\ ~cond.parsed.ok =>
             /\ cond.parsed.input = cond.input
             /\ cond.parsed.expr = <<>>
       /\ cond.flaw # "none" => ~cond.parsed.ok

\* A complete comparison followed by more text, refused.
C20_Witness ==
    /\ cond.pc = "parsed"
    /\ cond.flaw = "trailing"
    /\ cond.atoms = <<A_Same>>
    /\ cond.layout.pad = <<" ">>
    /\ ~cond.parsed.ok
    /\ cond.parsed.input = cond.input


(***************************************************************************)
(* Printing a parsed condition and parsing it again                        *)
(***************************************************************************)

\* The fragments of an operand as text: a Literal as its text, a Variable as
\* $(Name).
RECURSIVE PrettyParts(_)
PrettyParts(parts) ==
    IF parts = <<>> THEN <<>>
    ELSE (IF Head(parts).t = "Literal" THEN Head(parts).s
          ELSE <<"$", "(">> \o Head(parts).s \o <<")">>)
         \o PrettyParts(Tail(parts))

PrettyQuoted(parts) == <<"'">> \o PrettyParts(parts) \o <<"'">>

\* An expression as text; an And or Or below another operator is parenthesized.
RECURSIVE PrettyExpr(_)
PrettyNested(e) ==
    IF e.t \in {"And", "Or"} THEN <<"(">> \o PrettyExpr(e) \o <<")">> ELSE PrettyExpr(e)

PrettyExpr(e) ==
    CASE e.t = "Compare" ->
            PrettyQuoted(e.lhs)
              \o (IF e.op = "Equal" THEN <<" ", "=", "=", " ">> ELSE <<" ", "!", "=", " ">>)
              \o PrettyQuoted(e.rhs)
      [] e.t = "Exists" ->
            <<"E", "x", "i", "s", "t", "s", "(">> \o PrettyQuoted(e.parts) \o <<")">>
      [] e.t = "And" -> PrettyNested(e.a) \o <<" ", "a", "n", "d", " ">> \o PrettyNested(e.b)
      [] e.t = "Or" -> PrettyNested(e.a) \o <<" ", "o", "r", " ">> \o PrettyNested(e.b)

InitRoundTrip == InitCondition /\ cond.vars = EmptyMap

\* parse_condition on the printed text of the expression just parsed
Reparse ==
    /\ cond.pc = "parsed"
    /\ cond.parsed.ok
    /\ cond' = [cond EXCEPT !.pc = "reparsed",
                            !.printed = PrettyExpr(cond.parsed.expr),
                            !.reparsed = parse_condition(PrettyExpr(cond.parsed.expr))]
    /\ UNCHANGED <<source, project, call, pre, ncalls, env, run, merge, parked, rsvars>>

NextRoundTrip ==
    \/ ParseCondition
    \/ Reparse

SpecRoundTrip == InitRoundTrip /\ [][NextRoundTrip]_vars

\* C21: every condition that parses, printed from its tree (a Literal as its
\* text, a Variable as $(Name), a nested And or Or in parentheses) and parsed
\* again, parses, to the end of the printed text, into the same tree.
C21_PrettyParseRoundTrip ==
    cond.pc = "reparsed" =>
        /\ cond.reparsed.ok
        /\ cond.reparsed.expr = cond.parsed.expr

\* A grouped three-atom condition whose tree has an Or below an And, written
\* otherwise than it prints, has come back as the same tree.
C21_Witness ==
    /\ cond.pc = "reparsed"
    /\ Len(cond.atoms) = 3
    /\ cond.parsed.expr.t = "And"
    /\ cond.parsed.expr.b.t = "Or"
    /\ cond.printed # cond.input
    /\ cond.reparsed.ok
    /\ cond.reparsed.expr = cond.parsed.expr


(***************************************************************************)
(* parse_rsvars (rsvars.rs)                                                *)
(***************************************************************************)
MaxLines == 2

ToAsciiUpper(c) ==
    IF \E i \in 1..26 : c = LowerCase[i]
    THEN UpperCase[CHOOSE i \in 1..26 : c = LowerCase[i]] ELSE c

to_ascii_uppercase(s) == [i \in 1..Len(s) |-> ToAsciiUpper(s[i])]

RECURSIVE trim_start(_)
trim_start(s) == IF s # <<>> /\ Head(s) \in Whitespace THEN trim_start(Tail(s)) ELSE s

RECURSIVE trim_end(_)
trim_end(s) ==
    IF s # <<>> /\ s[Len(s)] \in Whitespace THEN trim_end(SubSeq(s, 1, Len(s) - 1)) ELSE s

trim(s) == trim_end(trim_start(s))

\* str::find(c): the position of the first c, 0 when there is none
IndexOf(s, c) ==
    LET I == {i \in 1..Len(s) : s[i] = c}
    IN  IF I = {} THEN 0 ELSE CHOOSE i \in I : \A j \in I : i <= j

\* chars.by_ref().take_while(|&ch| ch != '%'): the characters before the next
\* "%" and what is left after it (the "%" itself is consumed).
RECURSIVE TakePercent(_)
TakePercent(s) ==
    IF s = <<>> THEN [name |-> <<>>, rest |-> <<>>]
    ELSE IF s[1] = "%" THEN [name |-> <<>>, rest |-> Tail(s)]
    ELSE LET r == TakePercent(Tail(s)) IN [r EXCEPT !.name = <<s[1]>> \o @]

RECURSIVE expand_percent_vars(_, _)
expand_percent_vars(s, vs) ==
    IF s = <<>> THEN <<>>
    ELSE IF s[1] = "%"
    THEN LET t == TakePercent(Tail(s))
         IN  Lookup(vs, to_ascii_uppercase(t.name)) \o expand_percent_vars(t.rest, vs)
    ELSE <<s[1]>> \o expand_percent_vars(Tail(s), vs)

\* str::lines: the text between line feeds, a carriage return before a line
\* feed dropped; a final line without line feed counts when it is not empty.
RECURSIVE SplitLines(_, _)
SplitLines(s, line) ==
    IF s = <<>> THEN (IF line # <<>> THEN <<line>> ELSE <<>>)
    ELSE IF s[1] = "\n"
    THEN <<IF line # <<>> /\ line[Len(line)] = "\r"
           THEN SubSeq(line, 1, Len(line) - 1) ELSE line>>
         \o SplitLines(Tail(s), <<>>)
    ELSE SplitLines(Tail(s), line \o <<s[1]>>)

lines(content) == SplitLines(content, <<>>)

\* One iteration of the loop of parse_rsvars: the map after the line and the
\* key the line inserted, if it inserted one.
Skipped(vs) == [vars |-> vs, key |-> None]

set_key_value(vs, rest) ==
    LET eq_pos == IndexOf(rest, "=")
        key == to_ascii_uppercase(trim(SubSeq(rest, 1, eq_pos - 1)))
        raw_value == Drop(rest, eq_pos)
        value == IF IndexOf(raw_value, "%") # 0
                 THEN expand_percent_vars(raw_value, vs) ELSE raw_value
    IN  IF eq_pos = 0 THEN Skipped(vs)
        ELSE IF key = <<>> THEN Skipped(vs)
        ELSE [vars |-> Insert(vs, key, value), key |-> Some(key)]

set_line(vs, line) ==
    LET trimmed == trim(line)
        rest == IF StartsWith(trimmed, <<"@">>) THEN Tail(trimmed) ELSE trimmed
    IN  IF Len(rest) >= 3 /\ eq_ignore_ascii_case(SubSeq(rest, 1, 3), <<"s", "e", "t">>)
        THEN set_key_value(vs, trim_start(Drop(rest, 3)))
        ELSE Skipped(vs)

\* The loop over content.lines(), with what each line did.
RECURSIVE set_lines(_, _, _)
set_lines(vs, ls, hist) ==
    IF ls = <<>> THEN [vars |-> vs, hist |-> hist]
    ELSE LET r == set_line(vs, Head(ls))
         IN  set_lines(r.vars, Tail(ls),
                       Append(hist, [line |-> Head(ls), key |-> r.key,
                                     before |-> vs, after |-> r.vars]))

\* std::env::vars().map(|(k, v)| (k.to_ascii_uppercase(), v)).collect()
seed_environment(environment) ==
    [k \in {to_ascii_uppercase(n) : n \in DOMAIN environment} |->
        environment[CHOOSE n \in DOMAIN environment : to_ascii_uppercase(n) = k]]

parse_rsvars(environment, content) ==
    set_lines(seed_environment(environment), lines(content), <<>>)

\* Lines of an rsvars.bat.
RsLines ==
    { <<"@", "S", "E", "T", " ", "A", "=", "1">>,
      <<"S", "E", "T", " ", "A", "=", "2">>,
      <<"s", "e", "t", " ", "b", "=", "%", "a", "%", "x">>,
      <<"@", "S", "e", "t", " ", " ", "C", " ", "=", " ", "v">>,
      <<" ", "@", "S", "E", "T", " ", "A", "=", " ">>,
      <<"S", "E", "T", " ", "P", "=", "%", "P", "%", "%", "U">>,
      <<"@", "e", "c", "h", "o", " ", "o", "f", "f">>,
      <<"R", "E", "M", " ", "A", "=", "1">>,
      <<"S", "E", "T", " ", "=", "1">>,
      <<"S", "E", "T", " ", "A">>,
      <<"@", "@", "S", "E", "T", " ", "A", "=", "1">>,
      <<"S", "E", "T", "X", "=", "1">>,
      <<>> }

RECURSIVE Files(_)
Files(n) ==
    IF n = 0 THEN {<<>>}
    ELSE LET F == Files(n - 1)
         IN  F \cup {Append(f, l) : f \in {g \in F : Len(g) = n - 1}, l \in RsLines}

RECURSIVE JoinLines(_, _)
JoinLines(ls, eol) ==
    IF ls = <<>> THEN <<>> ELSE Head(ls) \o eol \o JoinLines(Tail(ls), eol)

\* Process environments; no two names differ in case only.
RsEnvironments == {EmptyMap, [n \in {<<"p">>, <<"A">>} |-> <<"e">>]}

InitRsvars ==
    /\ source = DocPlain
    /\ project = Dproj_parse(source).project
    /\ call = NoCall
    /\ pre = [source |-> source, project |-> project]
    /\ ncalls = 0
    /\ env = EmptyMap
    /\ run = Idle
    /\ parked = Idle
    /\ merge = NoMerge
    /\ cond = NoCondition
    /\ \E f \in Files(MaxLines), eol \in {<<"\n">>, <<"\r", "\n">>},
          environment \in RsEnvironments :
          rsvars = [NoRsvars EXCEPT !.pc = "start", !.environment = environment,
                                    !.content = JoinLines(f, eol)]

\* rsvars::parse_rsvars(content)
ParseRsvars ==
    /\ rsvars.pc = "start"
    /\ LET r == parse_rsvars(rsvars.environment, rsvars.content)
       IN  rsvars' = [rsvars EXCEPT !.pc = "done", !.vars = r.vars, !.hist = r.hist]
    /\ UNCHANGED <<source, project, call, pre, ncalls, env, run, merge, parked, cond>>

NextRsvars == ParseRsvars

SpecRsvars == InitRsvars /\ [][NextRsvars]_vars

\* The form `@SET KEY=VALUE` or `SET KEY=VALUE`: around the line whitespace,
\* an optional "@", the word SET in any case, whitespace, a KEY that is not
\* blank, "=", any VALUE.
SetForm(line) ==
    LET t == trim(line)
        u == IF StartsWith(t, <<"@">>) THEN Tail(t) ELSE t
        e == IndexOf(u, "=")
    IN  /\ Len(u) >= 4
        /\ eq_ignore_ascii_case(SubSeq(u, 1, 3), <<"s", "e", "t">>)
        /\ u[4] \in Whitespace
        /\ e > 4
        /\ trim(SubSeq(u, 4, e - 1)) # <<>>

\* C22: parse_rsvars adds or overrides an entry only for lines of the form
\* `@SET KEY=VALUE` or `SET KEY=VALUE` (SET in any case, KEY not empty);
\* every other line is skipped and leaves the map as it was.
C22_OnlySetLinesAddKeys ==
    rsvars.pc = "done" =>
        \A i \in 1..Len(rsvars.hist) :
            LET h == rsvars.hist[i]
            IN  /\ IsSome(h.key) => SetForm(h.line)
                /\ ~SetForm(h.line) => h.after = h.before


(***************************************************************************)
(* Properties of the build variables                                       *)
(***************************************************************************)
\* The first node of a name, as a set of at most one node.
NodesNamed(bcs, name) ==
    LET I == {i \in 1..Len(bcs) : bcs[i].name = name}
    IN  IF I = {} THEN {} ELSE {bcs[Least(I)]}

\* The names reached from config through CfgParent links.
RECURSIVE ParentClosure(_, _, _)
ParentClosure(bcs, names, n) ==
    IF n = 0 THEN names
    ELSE ParentClosure(bcs,
            names \cup {Unwrap(b.cfg_parent) :
                          b \in {c \in UNION {NodesNamed(bcs, x) : x \in names} :
                                   IsSome(c.cfg_parent)}},
            n - 1)

ChainNodes(bcs, config) ==
    UNION {NodesNamed(bcs, x) : x \in ParentClosure(bcs, {config}, Len(bcs))}

ChainKeys(bcs, config, platform) ==
    {b.key : b \in ChainNodes(bcs, config)}
      \cup {b.key \o <<"_">> \o platform : b \in ChainNodes(bcs, config)}

\* The value a call holds for one of Config, Configuration and Platform when
\* no node of the chain has that name as its key.
Requested(locals, name) ==
    IF name = S_Platform THEN locals.platform ELSE locals.config

\* C23 as stated: at every evaluation of a condition and expansion of a
\* group, Config and Configuration are the requested configuration and
\* Platform the requested platform, and every build variable has its initial
\* value.
C23_SelectionNeverShadowed ==
    run.pc = "groups" =>
        /\ \A name \in {S_Config, S_Configuration, S_Platform} :
               name \in DOMAIN run.vars /\ run.vars[name] = Requested(run, name)
        /\ \A k \in DOMAIN run.build_vars :
               k \in DOMAIN run.vars /\ run.vars[k] = run.build_vars[k]

\* C23: at every evaluation of a condition and expansion of a group, every
\* build variable has its initial value, whatever the applied groups set;
\* Config, Configuration and Platform are therefore the requested
\* configuration and platform, except the one that is the key of a node of
\* the parent chain, which is "true".
C23_BuildVariablesNeverShadowed ==
    run.pc = "groups" =>
        /\ \A k \in DOMAIN run.build_vars :
               k \in DOMAIN run.vars /\ run.vars[k] = run.build_vars[k]
        /\ \A name \in {S_Config, S_Configuration, S_Platform} :
               /\ name \in DOMAIN run.vars
               /\ run.vars[name] =
                      IF name \in {b.key : b \in ChainNodes(build_configs(project), run.config)}
                      THEN S_true ELSE Requested(run, name)

\* An applied group has set Config, Configuration and Platform to other
\* values than the requested ones and a tag named like a key of the chain;
\* the next group is evaluated against the requested ones.
C23_Witness ==
    /\ run.pc = "groups"
    /\ source = DocShadow
    /\ run.idx = 2
    /\ run.config = N_Debug
    /\ run.result.project_properties.config = Some(N_Release)
    /\ run.result.project_properties.platform = Some(P_Win64)
    /\ K_Cfg1 \in DOMAIN run.result.other
    /\ run.vars[S_Config] = N_Debug
    /\ run.vars[K_Cfg1] = S_true

\* C24 as stated: in the map resolve_build_variables returns, Config and
\* Configuration are config and Platform is platform.
C24_SelectionAlwaysWins ==
    run.pc = "groups" =>
        \A name \in {S_Config, S_Configuration, S_Platform} :
            name \in DOMAIN run.build_vars /\ run.build_vars[name] = Requested(run, name)

\* C24: in the map resolve_build_variables returns, Config and Configuration
\* are config and Platform is platform whatever the environment holds,
\* except the one that is the key of a node of the parent chain, which is
\* "true".
C24_SelectionWinsOverEnvironment ==
    run.pc = "groups" =>
        \A name \in {S_Config, S_Configuration, S_Platform} :
            /\ name \in DOMAIN run.build_vars
            /\ run.build_vars[name] =
                   IF name \in {b.key : b \in ChainNodes(build_configs(project), run.config)}
                   THEN S_true ELSE Requested(run, name)

\* The environment holds Config and Platform with other values.
C24_Witness ==
    /\ run.pc = "groups"
    /\ S_Config \in DOMAIN env
    /\ env[S_Config] # run.config
    /\ env[S_Platform] # run.platform
    /\ run.build_vars[S_Config] = run.config
    /\ run.build_vars[S_Configuration] = run.config
    /\ run.build_vars[S_Platform] = run.platform

MaxText == 4

TextChars == {"$", "(", ")", "B", "x"}

RECURSIVE Texts(_)
Texts(n) ==
    IF n = 0 THEN {<<>>}
    ELSE LET T == Texts(n - 1)
         IN  T \cup {Append(t, c) : t \in {u \in T : Len(u) = n - 1}, c \in TextChars}

\* Maps: empty, a plain value, and a value written as a reference beside a
\* value for the empty name.
TextMaps ==
    {EmptyMap,
     Insert(EmptyMap, <<"B">>, <<"a">>),
     Insert(Insert(EmptyMap, <<"B">>, <<"$", "(", "B", ")">>), <<>>, <<"e">>)}

InitText ==
    /\ source = DocPlain
    /\ project = Dproj_parse(source).project
    /\ call = NoCall
    /\ pre = [source |-> source, project |-> project]
    /\ ncalls = 0
    /\ env = EmptyMap
    /\ run = Idle
    /\ parked = Idle
    /\ merge = NoMerge
    /\ rsvars = NoRsvars
    /\ \E raw \in Texts(MaxText), vs \in TextMaps :
          cond = [NoCondition EXCEPT !.pc = "text", !.raw = raw, !.vars = vs]

\* expand_msbuild_vars(raw, vars)
ExpandText ==
    /\ cond.pc = "text"
    /\ cond' = [cond EXCEPT !.pc = "expanded",
                            !.text = expand_msbuild_vars(cond.raw, cond.vars)]
    /\ UNCHANGED <<source, project, call, pre, ncalls, env, run, merge, parked, rsvars>>

\* parse_string_parts(raw)
SplitText ==
    /\ cond.pc = "expanded"
    /\ cond' = [cond EXCEPT !.pc = "split", !.parts = parse_string_parts(cond.raw)]
    /\ UNCHANGED <<source, project, call, pre, ncalls, env, run, merge, parked, rsvars>>

\* expand_string(&parts, vars)
JoinParts ==
    /\ cond.pc = "split"
    /\ cond' = [cond EXCEPT !.pc = "joined",
                            !.joined = expand_string(cond.parts, cond.vars)]
    /\ UNCHANGED <<source, project, call, pre, ncalls, env, run, merge, parked, rsvars>>

NextText ==
    \/ ExpandText
    \/ SplitText
    \/ JoinParts

SpecText == InitText /\ [][NextText]_vars

\* The positions of text where a "$(" stands with no ")" anywhere after it.
Unclosed(text) ==
    {p \in 1..(Len(text) - 1) :
        /\ text[p] = "$"
        /\ text[p + 1] = "("
        /\ \A q \in (p + 2)..Len(text) : text[q] # ")"}

\* C26: a `$(` with no `)` after it takes all the text that is left as one
\* variable name, so the last fragment is that Variable and no Literal
\* follows it; the text outside the references is the Literals, in the order
\* of the source (the fragments written back give the text, closed when it
\* was not); no Literal is empty and no two Literals are adjacent.
C26_FragmentsOfAText ==
    cond.pc \in {"split", "joined"} =>
        LET parts == cond.parts
            U == Unclosed(cond.raw)
        IN  /\ U # {} =>
                 /\ parts # <<>>
                 /\ parts[Len(parts)] =
                        Variable(SubSeq(cond.raw, Least(U) + 2, Len(cond.raw)))
            /\ PrettyParts(parts) = IF U # {} THEN cond.raw \o <<")">> ELSE cond.raw
            /\ \A i \in 1..Len(parts) : parts[i].t = "Literal" => parts[i].s # <<>>
            /\ \A i \in 1..(Len(parts) - 1) :
                   ~(parts[i].t = "Literal" /\ parts[i + 1].t = "Literal")

\* A literal, a closed reference, and a reference left open with a ")"
\* nowhere after it.
C26_Witness ==
    /\ cond.pc = "split"
    /\ cond.raw = <<"x", "$", "(", "B">>
    /\ cond.parts = <<Literal(<<"x">>), Variable(<<"B">>)>>

\* C28: expand_msbuild_vars(s, vars) is expand_string(parse_string_parts(s),
\* vars), for every text and map: a reference left open, an empty name and a
\* "$" before another character included, and values written as references
\* are put in as they are.
C28_ExpansionsAgree ==
    cond.pc = "joined" => cond.joined = cond.text

\* A reference to a variable whose value is written as a reference to
\* itself: the value is put in once and not scanned.
C28_Witness ==
    /\ cond.pc = "joined"
    /\ cond.raw = <<"$", "(", "B", ")">>
    /\ cond.vars = Insert(Insert(EmptyMap, <<"B">>, <<"$", "(", "B", ")">>), <<>>, <<"e">>)
    /\ cond.text = <<"$", "(", "B", ")">>
    /\ cond.joined = cond.text


(***************************************************************************)
(* Properties of the expansion of an applied group                         *)
(***************************************************************************)
\* C27: when a group applies, every field it sets comes out as its text with
\* each $(Var) replaced by what the map held for Var when the evaluation of
\* the group began: a reference to a tag that the same group sets gets the
\* value from before the group, not the one the group gives.
C27_FieldsExpandedAgainstMapBefore ==
    \A k \in AppliedGroups :
        LET written == TagValues(project.property_groups[k])
            after == TagValues(ResultAfter(k))
        IN  \A t \in DOMAIN written :
                /\ t \in DOMAIN after
                /\ after[t] = Resolved(parse_string_parts(written[t]), run.hist[k].vars)

\* The second group sets MyTag to "b" and refers to MyTag in another field:
\* the reference has been replaced by the "a" of the first group.
C27_Witness ==
    /\ run.pc = "done"
    /\ run.ret = "ok"
    /\ source = DocSameGroup
    /\ env = EmptyMap
    /\ Len(run.hist) = 2
    /\ run.hist[2].applied
    /\ run.hist[2].vars[S_MyTag] = <<"a">>
    /\ run.result.other[S_MyTag] = <<"b">>
    /\ run.result.dcc_options.define = Some(<<"a">>)


(***************************************************************************)
(* Properties of the source after a mutation                               *)
(***************************************************************************)
\* C29: after a set_property_value(i, tag, v) that succeeded, the source is
\* still a well-formed document with as many PropertyGroup elements as the
\* model has groups, so that set_property_value(i, tag, w) succeeds on it for
\* every w.
C29_SourceStaysEditable ==
    Succeeded("set_property_value") =>
        LET doc == DocumentParse(source)
        IN  /\ doc.ok
            /\ Len(ChildElements(doc.root, S_PropertyGroup)) = Len(project.property_groups)
            /\ \A w \in Values :
                   set_property_value(source, project, call.pg_index, call.tag, w).err
                       = NoError


(***************************************************************************)
(* Properties of the conditions met by the resolver                        *)
(***************************************************************************)
\* The groups whose condition does not parse.
Unparsed ==
    {k \in 1..Len(project.property_groups) :
        /\ IsSome(project.property_groups[k].condition)
        /\ ~parse_condition(Unwrap(project.property_groups[k].condition)).ok}

\* A call for a configuration that the project has is over.
ReturnedForKnown ==
    /\ run.pc = "done"
    /\ run.err \notin {NoDefaultConfig, NoDefaultPlatform}
    /\ \E i \in 1..Len(project.item_groups) :
          \E j \in 1..Len(project.item_groups[i].build_configurations) :
             project.item_groups[i].build_configurations[j].name = run.config

\* C30: for a configuration that exists, active_property_group_for returns
\* an error exactly when some group has a condition that does not parse: the
\* error carries the text of the first such condition in document order, all
\* groups before it have been evaluated, applied or not, and no group is
\* returned.
C30_UnparsedConditionIsAnError ==
    ReturnedForKnown =>
        IF Unparsed = {}
        THEN run.ret = "ok" /\ Len(run.hist) = Len(project.property_groups)
        ELSE /\ run.ret = "err"
             /\ run.err =
                  ConditionError(Unwrap(project.property_groups[Least(Unparsed)].condition))
             /\ Len(run.hist) = Least(Unparsed)

\* Under Debug the group before the first unparsed condition does not
\* apply; the error is that of the third group, not of the fourth.
C30_Witness ==
    /\ run.pc = "done"
    /\ source = DocBadLater
    /\ run.config = N_Debug
    /\ run.ret = "err"
    /\ run.err = ConditionError(Quote(<<"a">>))
    /\ Len(run.hist) = 3
    /\ ~run.hist[2].applied

=============================================================================
